---- MODULE Spec2Model ----
(***************************************************************************)
(* A model of slosar/radio1d, src/telescope_1d.py (class Telescope1D).     *)
(*                                                                         *)
(* Conventions                                                             *)
(*  - a numpy array is a function with domain 0..n-1 (Python indexing);    *)
(*  - a complex number is a pair <<re, im>> of integers (Gaussian          *)
(*    integers); quantities that are fractions in the code are kept as a   *)
(*    numerator over a denominator that is carried next to them;           *)
(*  - lengths are in quarter metres (the non-redundant spacings are        *)
(*    DDish, 1.25 DDish and 1.5 DDish), frequencies in units of 20 MHz,    *)
(*    timing errors in units of 12.5 ns (a quarter turn of phase per       *)
(*    frequency unit) and amplitude errors in units of 1/AmpDen.           *)
(***************************************************************************)
EXTENDS Integers, Sequences, FiniteSets, TLC

\* self: the Telescope1D instance; rng: the state of the shared generator
\* np.random; inp: the caller's arguments of the run; call: the last call
\* and what it returned; par: the per-frequency tasks of observe_image;
\* hist: what has happened so far (decompositions done, first outputs)
VARIABLES self, rng, inp, call, par, hist

vars == <<self, rng, inp, call, par, hist>>

(***************************************************************************)
(* Bounds of the model.                                                    *)
(***************************************************************************)
\* pixel values of the images fed to the transforms are 0..MaxPix
MaxPix == 1
\* seeds handed to the seeded operations are 0..MaxSeed
MaxSeed == 1
\* the constructor is run with 1..MaxDishes dishes
MaxDishes == 4
\* and with 1..MaxNfreq frequencies
MaxNfreq == 2
\* error_sigma is 0..MaxSigma
MaxSigma == 1
\* the uv-planes handed to the operations are PlaneOf(0..MaxPlane, ...)
MaxPlane == 1
\* the foreground matrices are BlockMatrix(0..MaxFG, ...)
MaxFG == 4
\* the filters are run on instances of 1..MaxFGDishes dishes
MaxFGDishes == 2

(***************************************************************************)
(* Arrays and complex arithmetic (numpy).                                  *)
(***************************************************************************)
Len0(a) == Cardinality(DOMAIN a)

Zeros(n) == [k \in 0..(n-1) |-> 0]

CZero == <<0, 0>>

Min(a, b) == IF a < b THEN a ELSE b

Abs(a) == IF a < 0 THEN -a ELSE a

CAdd(a, b) == <<a[1] + b[1], a[2] + b[2]>>

CSub(a, b) == <<a[1] - b[1], a[2] - b[2]>>

CMul(a, b) == <<a[1]*b[1] - a[2]*b[2], a[1]*b[2] + a[2]*b[1]>>

CConj(a) == <<a[1], -a[2]>>

CScale(r, a) == <<r*a[1], r*a[2]>>

\* i^q: exp(1j * q * pi/2)
CPowI(q) == CASE q % 4 = 0 -> <<1, 0>>
              [] q % 4 = 1 -> <<0, 1>>
              [] q % 4 = 2 -> <<-1, 0>>
              [] OTHER     -> <<0, -1>>

RECURSIVE CSum(_, _)
\* sum of f[k] over k in the finite set S
CSum(f, S) == IF S = {} THEN CZero
              ELSE LET k == CHOOSE x \in S : TRUE
                   IN  CAdd(f[k], CSum(f, S \ {k}))

RECURSIVE ISum(_, _)
ISum(f, S) == IF S = {} THEN 0
              ELSE LET k == CHOOSE x \in S : TRUE
                   IN  f[k] + ISum(f, S \ {k})

(***************************************************************************)
(* Complex numbers with rational parts: <<re, im, den>> stands for         *)
(* (re + i im)/den, kept in lowest terms with den > 0, so that two equal   *)
(* numbers are equal as tuples.                                            *)
(***************************************************************************)
RECURSIVE Gcd(_, _)
Gcd(a, b) == IF b = 0 THEN Abs(a) ELSE Gcd(b, a % Abs(b))

QNorm(q) ==
  LET g == Gcd(Gcd(q[1], q[2]), q[3])
      sg == IF q[3] < 0 THEN -1 ELSE 1
  IN  <<sg * (q[1] \div g), sg * (q[2] \div g), sg * (q[3] \div g)>>

QZero == <<0, 0, 1>>

QOfC(c) == <<c[1], c[2], 1>>

QAdd(a, b) == QNorm(<<a[1]*b[3] + b[1]*a[3], a[2]*b[3] + b[2]*a[3], a[3]*b[3]>>)

QMul(a, b) == QNorm(<<a[1]*b[1] - a[2]*b[2], a[1]*b[2] + a[2]*b[1], a[3]*b[3]>>)

\* a / n for an integer n > 0
QDivInt(a, n) == QNorm(<<a[1], a[2], a[3] * n>>)

RECURSIVE QSum(_, _)
\* sum of f[k] over k in the finite set S
QSum(f, S) == IF S = {} THEN QZero
              ELSE LET k == CHOOSE x \in S : TRUE
                   IN  QAdd(f[k], QSum(f, S \ {k}))

\* the start or stop of a Python slice a[i:], a[:i] on an array of length n
PySlice(i, n) ==
  LET
      Max(a, b) == IF a > b THEN a ELSE b
  IN
                 IF i < 0 THEN Max(n + i, 0) ELSE Min(i, n)

(***************************************************************************)
(* numpy.fft.rfft / irfft on a buffer of N samples.  The twiddle factor    *)
(* exp(-2 pi i / N) is the Gaussian integer (-i)^(4/N) when N divides 4,   *)
(* so for N in {1, 2, 4} the transform is computed exactly.                *)
(***************************************************************************)
FftSizes == {2, 4}

(***************************************************************************)
(* Image <-> uv                                                            *)
(***************************************************************************)

\* a[lo:hi] as a fresh array
GetSlice(a, lo, hi) == [k \in 0..(hi - lo - 1) |-> a[lo + k]]

image2uv(s, image) ==
  LET
      \* the padded buffer image2uv hands to rfft
      bigimageOf(s0, image0) ==
        LET
            \* bigimage[lo:lo+len(src)] = src
            SetSlice(big, lo, src) ==
              [k \in DOMAIN big |->
                 IF k >= lo /\ k < lo + Len0(src) THEN src[k - lo] ELSE big[k]]
        IN
        LET Nfft == s0.Npix_fft * s0.Npad
            n    == Len0(image0)
            b0   == Zeros(Nfft)
            \* bigimage[:Npix_fft//2+1] = image0[-Npix_fft//2-1:]
            src1 == GetSlice(image0, PySlice(((-s0.Npix_fft) \div 2) - 1, n), n)
            b1   == SetSlice(b0, 0, src1)
            \* bigimage[-Npix_fft//2:] = image0[:Npix_fft//2]
            src2 == GetSlice(image0, 0, PySlice(s0.Npix_fft \div 2, n))
        IN  SetSlice(b1, PySlice((-s0.Npix_fft) \div 2, Nfft), src2)
  IN
  LET
      rfft(x) ==
        LET N == Len0(x)
        IN  [k \in 0..(N \div 2) |->
               CSum([n \in 0..(N-1) |-> CScale(x[n], CPowI(-((4 \div N) * n * k)))],
                    0..(N-1))]
  IN
                      rfft(bigimageOf(s, image))

uv2image(s, uv) ==
  LET
      \* irfft(uv000), defined where every sample is a whole number
      irfft(uv000) ==
        LET
            \* N * irfft(uv00): the normalisation 1/N is applied by the caller
            irfftTimesN(uv00) ==
              LET
                  \* the full Hermitian spectrum irfft rebuilds from the N0/2+1 stored samples;
                  \* the imaginary parts of the samples 0 and N0/2 are ignored
                  HermitianFull(uv0, N0) ==
                    [k \in 0..(N0-1) |->
                       IF k = 0 \/ 2*k = N0 THEN <<uv0[k][1], 0>>
                       ELSE IF 2*k < N0 THEN uv0[k] ELSE CConj(uv0[N0 - k])]
              IN
              LET N == 2 * (Len0(uv00) - 1)
                  X == HermitianFull(uv00, N)
              IN  [n \in 0..(N-1) |->
                     CSum([k \in 0..(N-1) |-> CMul(X[k], CPowI((4 \div N) * n * k))],
                          0..(N-1))[1]]
        IN
        LET N == 2 * (Len0(uv000) - 1)
            y == irfftTimesN(uv000)
        IN  [n \in 0..(N-1) |-> y[n] \div N]
  IN
  LET
      \* the window uv2image cuts out of the inverse transform
      imageOfBig(s0, bigimage) ==
        LET
            \* np.hstack((a, b))
            hstack(a, b) ==
              [k \in 0..(Len0(a) + Len0(b) - 1) |->
                 IF k < Len0(a) THEN a[k] ELSE b[k - Len0(a)]]
        IN
        LET N == Len0(bigimage)
        IN  hstack(GetSlice(bigimage, PySlice((-s0.Npix_fft) \div 2, N), N),
                   GetSlice(bigimage, 0, PySlice(s0.Npix_fft \div 2 + 1, N)))
  IN
                   imageOfBig(s, irfft(uv))

(***************************************************************************)
(* The shared generator np.random: a state that np.random.seed sets from   *)
(* the seed alone and that every draw advances (a full-period congruential *)
(* generator stands for the Mersenne twister).                             *)
(***************************************************************************)
RngMod == 16

Seeds == 0..MaxSeed

\* np.random.seed(seed)
np_random_seed(seed) == (7 * seed + 3) % RngMod

\* the generator's state after one more draw
RngNext(r) == (5 * r + 1) % RngMod

\* mutant of RandintOf: the upper end is included, as random.randint does
RandintOf_inclusive(r, low, high) == low + (r % (high - low + 1))

\* np.random.randint(low, high) read off the state r reached by the draw
RandintOf(r, low, high) == low + (r % (high - low))

(***************************************************************************)
(* Telescope1D.__init__                                                    *)
(***************************************************************************)
\* quarter metres per metre: the spacings are DDish*(1 + k/4)
LenUnit == 4

\* the band of the model, 100 MHz .. 140 MHz in units of 20 MHz
MinFreqU == 5

MaxFreqU == 7

\* D/lambda = length[m] * f[MHz] / 300 = length[quarter m] * f[units] / DoLDen
DoLDen == 60

\* amplitude errors are multiples of 1/AmpDen
AmpDen == 4

RECURSIVE DishLoop_random(_, _, _, _, _)
\* mutant of DishLoop: the redundant flag is ignored
DishLoop_random(ii, locs, r, DDish, redundant) ==
  IF ii >= Len0(locs) THEN [locs |-> locs, rng |-> r]
  ELSE LET r1       == RngNext(r)
           distance == DDish * (LenUnit + RandintOf(r1, 0, 3))
       IN  DishLoop_random(ii + 1, [locs EXCEPT ![ii] = locs[ii-1] + distance],
                           r1, DDish, redundant)

RECURSIVE DishLoop(_, _, _, _, _)
\* for ii in np.arange(1, Ndishes): ...; yields the layout and the generator
DishLoop(ii, locs, r, DDish, redundant) ==
  IF ii >= Len0(locs) THEN [locs |-> locs, rng |-> r]
  ELSE IF redundant
       THEN DishLoop(ii + 1, [locs EXCEPT ![ii] = locs[ii-1] + LenUnit * DDish],
                     r, DDish, redundant)
       ELSE LET r1       == RngNext(r)
                \* DDish*(1 + randint(0,3)/4)
                distance == DDish * (LenUnit + RandintOf(r1, 0, 3))
            IN  DishLoop(ii + 1, [locs EXCEPT ![ii] = locs[ii-1] + distance],
                         r1, DDish, redundant)

\* index of the pair (a, b), a < b, in itertools.combinations(range(n), 2)
PairIndex(a, b, n) == a * n - ((a * (a + 1)) \div 2) + (b - a - 1)

NPairs(n) == (n * (n - 1)) \div 2

\* list(combinations(arr, 2)): the pairs of VALUES, as the code builds them
combinations2(arr) ==
  LET
      \* list(combinations(range(n), 2)): the index pairs in generation order
      IndexPairs(n) ==
        [k \in 0..(NPairs(n) - 1) |->
           CHOOSE p \in (0..(n-1)) \X (0..(n-1)) :
              p[1] < p[2] /\ PairIndex(p[1], p[2], n) = k]
  IN
  LET ip == IndexPairs(Len0(arr))
  IN  [k \in DOMAIN ip |-> <<arr[ip[k][1]], arr[ip[k][2]]>>]

\* mutant of np_unique: np.sort(a), the values in ascending order with
\* their repetitions
np_unique_sort(a) ==
  [k \in DOMAIN a |->
     CHOOSE v \in {a[i] : i \in DOMAIN a} :
        /\ Cardinality({i \in DOMAIN a : a[i] < v}) <= k
        /\ k < Cardinality({i \in DOMAIN a : a[i] <= v})]

\* np.unique(a): the distinct values in ascending order
np_unique(a) ==
  LET S == {a[k] : k \in DOMAIN a}
  IN  [k \in 0..(Cardinality(S) - 1) |->
         CHOOSE v \in S : Cardinality({w \in S : w < v}) = k]

\* np.linspace(lo, hi, n)
linspace(lo, hi, n) ==
  [k \in 0..(n-1) |-> IF n = 1 THEN lo ELSE lo + (k * (hi - lo)) \div (n - 1)]

\* the freqs property
freqs(s) == linspace(s.minfreq, s.maxfreq, s.Nfreq)

\* __init__: the instance and the generator it leaves behind
Telescope1D(Nfreq, Ndishes, DDish, Npix_fft, Npad, minfreq, maxfreq, redundant, seed) ==
  LET
      \* np.outer(1/lams, unique_baseline_lengths), as numerators over DoLDen
      DoLOf(fr, ubl) == [i \in DOMAIN fr |-> [j \in DOMAIN ubl |-> fr[i] * ubl[j]]]
  IN
  LET
      \* np.arange(0, n, dtype=float), in quarter metres
      arange(n) == [k \in 0..(n-1) |-> LenUnit * k]
  IN
  LET lp   == DishLoop(1, arange(Ndishes), np_random_seed(seed), DDish, redundant)
      cmb  == combinations2(lp.locs)
      bl   == [k \in DOMAIN cmb |-> cmb[k][2] - cmb[k][1]]
      ubl  == np_unique(bl)
  IN  [self |-> [Npix_fft |-> Npix_fft, Npix |-> Npix_fft + 1, Npad |-> Npad,
                 Nfft |-> Npix_fft * Npad, Nfreq |-> Nfreq,
                 minfreq |-> minfreq, maxfreq |-> maxfreq,
                 Ndishes |-> Ndishes, DDish |-> DDish, redundant |-> redundant,
                 dish_locations |-> lp.locs, baseline_lengths |-> bl,
                 unique_baseline_lengths |-> ubl,
                 DoL |-> DoLOf(linspace(minfreq, maxfreq, Nfreq), ubl),
                 eva |-> <<>>, sing_eva |-> <<>>, fg |-> 0],
       rng |-> lp.rng]

\* DoL2ndx: D/lambda -> fractional uv index, numerator over DoLDen
DoL2ndx(s, DoL) == DoL * s.Npad * 2

(***************************************************************************)
(* uv2uvplane.  An index is a numerator t over DoLDen; the entries of the  *)
(* result are complex rationals.                                           *)
(***************************************************************************)
Floor(t) == t \div DoLDen

Ceil(t) == -((-t) \div DoLDen)

\* mutant of uv2uvplaneEntry: nearest-neighbour sampling, uv[indices.astype(int)]
uv2uvplaneEntry_nearest(uv, idx_val) ==
  IF Ceil(idx_val) < Len0(uv) THEN QOfC(uv[Floor(idx_val)]) ELSE QZero

\* one pass of the loop body for the index idx_val
uv2uvplaneEntry(uv, idx_val) ==
  LET
      Frac(t) == t % DoLDen
  IN
  IF Ceil(idx_val) < Len0(uv)
  THEN LET val1 == uv[Floor(idx_val)]
           val2 == uv[Ceil(idx_val)]
           \* (idx_val%1) * (val2-val1) + val1
       IN  QAdd(QDivInt(QOfC(CScale(Frac(idx_val), CSub(val2, val1))), DoLDen),
                QOfC(val1))
  ELSE QZero

\* indices: [ndim |-> 0] for None, [ndim |-> 1 or 2, v |-> array]
uv2uvplane(s, uv, indices) ==
  LET ind == IF indices.ndim = 0
             THEN [ndim |-> 2,
                   v |-> [i \in DOMAIN s.DoL |->
                            [j \in DOMAIN s.DoL[i] |-> DoL2ndx(s, s.DoL[i][j])]]]
             ELSE indices
  IN  IF ind.ndim = 1
      THEN [ii \in DOMAIN ind.v |-> uv2uvplaneEntry(uv, ind.v[ii])]
      ELSE [ii \in DOMAIN ind.v |->
              [jj \in DOMAIN ind.v[ii] |-> uv2uvplaneEntry(uv, ind.v[ii][jj])]]

(***************************************************************************)
(* decompose_filtering: np.linalg.eigh.  A matrix is an array of rows of   *)
(* Gaussian integers.  An eigenvector is kept unnormalised, as             *)
(* [V |-> integer vector, n2 |-> |V|^2], and stands for V/sqrt(n2).        *)
(* eigh is modelled by its contract: ascending real eigenvalues with       *)
(* mutually orthogonal eigenvectors, found among the vectors that are      *)
(* exactly representable here (unit vectors and the two-component shapes   *)
(* of Shapes2 placed on any pair of coordinates).                          *)
(***************************************************************************)
\* an array held in memory: the comparison makes TLC compute the entries
\* once instead of at every access
array(a) == IF a = a THEN a ELSE a

Shapes2 == { << <<1, 0>>, <<1, 0>> >>,  << <<1, 0>>, <<-1, 0>> >>,
             << <<1, 0>>, <<0, 1>> >>,  << <<1, 0>>, <<0, -1>> >>,
             << <<1, 1>>, <<1, 0>> >>,  << <<1, 0>>, <<-1, 1>> >> }

CandVecs(d) ==
  LET
      PairVec(d00, a, b, sh0) ==
        LET
            CNorm2(a0) == a0[1]*a0[1] + a0[2]*a0[2]
        IN
        [V |-> [k \in 0..(d00-1) |-> IF k = a THEN sh0[1] ELSE IF k = b THEN sh0[2] ELSE CZero],
         n2 |-> CNorm2(sh0[1]) + CNorm2(sh0[2])]
  IN
  LET
      UnitVec(d0, i0) ==
        [V |-> [k \in 0..(d0-1) |-> IF k = i0 THEN <<1, 0>> ELSE CZero], n2 |-> 1]
  IN
  {UnitVec(d, i) : i \in 0..(d-1)}
  \cup {PairVec(d, p[1], p[2], sh) :
          p \in {q \in (0..(d-1)) \X (0..(d-1)) : q[1] < q[2]}, sh \in Shapes2}

MatVec(M, V) ==
  [r \in DOMAIN M |-> CSum([c \in DOMAIN V |-> CMul(M[r][c], V[c])], DOMAIN V)]

\* <a, b> = sum conj(a_k) b_k
Inner(a, b) == CSum([k \in DOMAIN a |-> CMul(CConj(a[k]), b[k])], DOMAIN a)

RECURSIVE PickBasis(_, _, _)
\* d mutually orthogonal eigenvectors, chosen one at a time (a sequence)
PickBasis(cands, chosen, d) ==
  IF Len(chosen) = d THEN chosen
  ELSE LET v  == CHOOSE x \in cands : TRUE
           ok == {u \in cands : Inner(v.V, u.V) = CZero}
       IN  PickBasis(ok, Append(chosen, v), d)

\* rank[i]: the number of eigenpairs that come before basis[i]
Ranked(d, basis, ev, rank) ==
  LET
      \* eigenpairs in ascending order of the eigenvalues; at[k] is the position
      \* in basis0 of the k-th smallest
      Ascending(d0, basis0, ev0, at) ==
        [eva |-> array([k \in 0..(d0-1) |-> ev0[at[k]]]),
         eve |-> array([k \in 0..(d0-1) |-> basis0[at[k]]])]
  IN
  Ascending(d, basis, ev, array([k \in 0..(d-1) |-> CHOOSE i \in 1..d : rank[i] = k]))

WithEigenvalues(d, basis, ev) ==
  Ranked(d, basis, ev,
         array([i \in 1..d |->
                  Cardinality({j \in 1..d : ev[j] < ev[i] \/ (ev[j] = ev[i] /\ j < i)})]))

WithBasis(matrix, d, basis) ==
  LET
      \* n2 * eigenvalue, if vec0 is an eigenvector of M0
      RayleighN(M0, vec0) == Inner(vec0.V, MatVec(M0, vec0.V))[1]
  IN
  LET
      EigVal(M, vec) == RayleighN(M, vec) \div vec.n2
  IN
  WithEigenvalues(d, basis, array([i \in 1..d |-> EigVal(matrix, basis[i])]))

decompose_filtering(matrix) ==
  LET
      IsEigenvector(M, vec) ==
        LET MV == MatVec(M, vec.V)
            ln == Inner(vec.V, MV)[1]
        IN  /\ ln % vec.n2 = 0
            /\ \A r \in DOMAIN M : CScale(vec.n2, MV[r]) = CScale(ln, vec.V[r])
  IN
  WithBasis(matrix, Len0(matrix),
            PickBasis({v \in CandVecs(Len0(matrix)) : IsEigenvector(matrix, v)},
                      <<>>, Len0(matrix)))

(***************************************************************************)
(* The Hermitian matrices of the model.  H2(sh, m) has the orthogonal      *)
(* eigenvectors given by the shapes sh[1], sh[2] with eigenvalues          *)
(* n2*m[1], n2*m[2]; BlockMatrix places one n x n block per unique         *)
(* baseline at the flattened positions f*Nb + i, as                        *)
(* get_FG_filtering_matrix_inverse lays out (frequency, baseline) pairs.   *)
(***************************************************************************)
ShapePairs == << << << <<1, 0>>, <<1, 0>> >>, << <<1, 0>>, <<-1, 0>> >> >>,
                 << << <<1, 0>>, <<0, 1>> >>, << <<1, 0>>, <<0, -1>> >> >>,
                 << << <<1, 1>>, <<1, 0>> >>, << <<1, 0>>, <<-1, 1>> >> >> >>

\* eigenvalue multipliers of the two eigenvectors of a block
Spectra == << <<2, 1>>, <<0, 1>>, <<1, -2>>, <<0, 0>>, <<1, 1>> >>

\* sum_k m[k] V_k V_k^H on the coordinates 0,1 of an n x n block (n >= 2);
\* further coordinates get the diagonal entry m[1] + m[2] + their index
H2(sp, m, n) ==
  [r \in 0..(n-1) |-> [c \in 0..(n-1) |->
     IF r < 2 /\ c < 2
     THEN CAdd(CScale(m[1], CMul(sp[1][r+1], CConj(sp[1][c+1]))),
               CScale(m[2], CMul(sp[2][r+1], CConj(sp[2][c+1]))))
     ELSE IF r = c THEN <<m[1] + m[2] + r, 0>> ELSE CZero]]

\* the t-th block of size n
BlockOf(t, n) ==
  IF n = 1 THEN [r \in {0} |-> [c \in {0} |-> <<Spectra[(t % Len(Spectra)) + 1][1], 0>>]]
  ELSE H2(ShapePairs[(t % Len(ShapePairs)) + 1], Spectra[(t % Len(Spectra)) + 1], n)

BlockMatrix(t, Nfreq, Nb) ==
  [r \in 0..(Nfreq * Nb - 1) |-> [c \in 0..(Nfreq * Nb - 1) |->
     IF r % Nb = c % Nb
     THEN BlockOf(t + (r % Nb), Nfreq)[r \div Nb][c \div Nb]
     ELSE CZero]]

(***************************************************************************)
(* get_FG_filtering_matrix_inverse.  The sum of outer products of the      *)
(* point-source responses exp(-2 pi i DoL alpha) * beam^2/cos(alpha) is    *)
(* transcendental; the Hermitian (Nfreq*Nb) x (Nfreq*Nb) matrix of an      *)
(* instance is one of the exactly decomposable matrices BlockMatrix,       *)
(* fixed for the instance by its field fg (the value lru_cache keeps).     *)
(***************************************************************************)
NbOf(s) == Len0(s.unique_baseline_lengths)

get_FG_filtering_matrix_inverse(s) == BlockMatrix(s.fg, s.Nfreq, NbOf(s))

(***************************************************************************)
(* filter_FG and filter_FG_per_baseline.  A uv-plane is an array of rows   *)
(* of complex rationals; scale is a fraction [num, den].                   *)
(***************************************************************************)
Rows(plane) == Len0(plane)

Cols(plane) == IF Len0(plane) = 0 THEN 0 ELSE Len0(plane[0])

\* np.copy(uvplane).flatten()
flatten(plane) ==
  array([k \in 0..(Rows(plane) * Cols(plane) - 1) |->
           plane[k \div Cols(plane)][k % Cols(plane)]])

\* out.reshape(shape)
reshape(out, rows, cols) ==
  [i \in 0..(rows - 1) |-> [j \in 0..(cols - 1) |-> out[i * cols + j]]]

\* x = np.dot(out, w); out -= x * v   (v = V/sqrt(n2), w = W/sqrt(n2))
Project(out, V, W, n2) ==
  LET
      \* np.dot(out0, w) * sqrt(n2), w given by its integer vector W0
      DotN(out0, W0) == QSum([k \in DOMAIN out0 |-> QMul(out0[k], QOfC(W0[k]))], DOMAIN out0)
  IN
  LET
      QNeg(a0) == <<-a0[1], -a0[2], a0[3]>>
  IN
  LET
      QSub(a, b) == QAdd(a, QNeg(b))
  IN
  LET x == DotN(out, W)
  IN  array([k \in DOMAIN out |-> QSub(out[k], QDivInt(QMul(x, QOfC(V[k])), n2))])

\* np.abs(eva).max(); the caller has checked that eva is not empty
MaxAbs(eva) == CHOOSE m \in {Abs(eva[k]) : k \in DOMAIN eva} :
                 \A k \in DOMAIN eva : Abs(eva[k]) <= m

\* mutant of Selected: "np.abs(val) >= minval"
Selected_ge(val, maxabs, scale) == Abs(val) * scale.den >= maxabs * scale.num

\* np.abs(val) > minval, minval = maxabs * scale
Selected(val, maxabs, scale) == Abs(val) * scale.den > maxabs * scale.num

\* the body of "for val, vec in zip(eva, eve.T)" for one eigenpair
FilterStep(out, vec) ==
  LET
      ConjVec(V) == [k \in DOMAIN V |-> CConj(V[k])]
  IN
  LET cvec == ConjVec(vec.V)
      o1   == Project(out, vec.V, cvec, vec.n2)
  IN  Project(o1, cvec, vec.V, vec.n2)

RECURSIVE FilterLoop(_, _, _, _, _)
\* the loop from eigenpair k on; yields the vector and the count cc
FilterLoop(k, out, cc, e, scale) ==
  IF k >= Len0(e.eva) THEN [out |-> out, cc |-> cc]
  ELSE IF Selected(e.eva[k], MaxAbs(e.eva), scale)
       THEN FilterLoop(k + 1, FilterStep(out, e.eve[k]), cc + 1, e, scale)
       ELSE FilterLoop(k + 1, out, cc, e, scale)

\* mutant of EvaCache: the hasattr test is missing, every call decomposes
EvaCache_always(s) ==
  [self |-> [s EXCEPT !.eva = <<decompose_filtering(get_FG_filtering_matrix_inverse(s))>>],
   computed |-> 1]

\* the cached decomposition: computed when the attribute is absent
EvaCache(s) ==
  IF s.eva = <<>>
  THEN [self |-> [s EXCEPT !.eva = <<decompose_filtering(get_FG_filtering_matrix_inverse(s))>>],
        computed |-> 1]
  ELSE [self |-> s, computed |-> 0]

\* filter_FG(uvplane, scale, matrix); matrix is <<>> for None, <<M>> otherwise.
\* np.abs(eva).max() raises ValueError on an empty eva.
\* An outcome carries, next to the returned array ret, the content arg of
\* the caller's array uvplane when the call is over.
\* mutant of FilterReturn: "out = uvplane.reshape(-1)", a view of the
\* argument instead of a copy, so that the loop writes into the argument
FilterReturn_view(s, computed, uvplane, r) ==
  [self |-> s, computed |-> computed, raised |-> FALSE,
   ret |-> reshape(r.out, Rows(uvplane), Cols(uvplane)), cc |-> r.cc,
   arg |-> reshape(r.out, Rows(uvplane), Cols(uvplane))]

\* return out.reshape(uvplane.shape), r being the outcome of the loop on
\* out = np.copy(uvplane).flatten(): the argument is left as it was
FilterReturn(s, computed, uvplane, r) ==
  [self |-> s, computed |-> computed, raised |-> FALSE,
   ret |-> reshape(r.out, Rows(uvplane), Cols(uvplane)), cc |-> r.cc,
   arg |-> uvplane]

\* the part of filter_FG after eva, eve = ... with the basis e
FilterWith(s, computed, e, uvplane, scale) ==
  IF Len0(e.eva) = 0
  THEN [self |-> s, computed |-> computed, raised |-> TRUE, ret |-> <<>>, cc |-> 0,
        arg |-> uvplane]
  ELSE FilterReturn(s, computed, uvplane, FilterLoop(0, flatten(uvplane), 0, e, scale))

filter_FG(s, uvplane, scale, matrix) ==
  LET
      \* the branch matrix is None, c being the outcome of the cache lookup
      FilterCached(c, uvplane0, scale0) ==
        FilterWith(c.self, c.computed, c.self.eva[1], uvplane0, scale0)
  IN
  IF matrix # <<>>
  THEN FilterWith(s, 0, decompose_filtering(matrix[1]), uvplane, scale)
  ELSE FilterCached(EvaCache(s), uvplane, scale)

\* mutant of SubMatrix: matrix[st:en, st:en] with st, en = i*Nfreq, (i+1)*Nfreq,
\* the contiguous block
SubMatrix_contiguous(matrix, i, Nb) ==
  LET n == Len0(matrix) \div Nb
  IN  [a \in 0..(n-1) |-> [b \in 0..(n-1) |-> matrix[i * n + a][i * n + b]]]

\* matrix[i::Nb, i::Nb]
SubMatrix(matrix, i, Nb) ==
  LET n == (Len0(matrix) - i + Nb - 1) \div Nb
  IN  [a \in 0..(n-1) |-> [b \in 0..(n-1) |-> matrix[i + a * Nb][i + b * Nb]]]

\* the cached list of per-baseline decompositions
SingEvaCache(s) ==
  IF s.sing_eva = <<>>
  THEN LET matrix == get_FG_filtering_matrix_inverse(s)
           Nb     == NbOf(s)
           evas   == [i \in 0..(Nb - 1) |-> decompose_filtering(SubMatrix(matrix, i, Nb))]
       IN  [self |-> [s EXCEPT !.sing_eva = <<evas>>], computed |-> 1]
  ELSE [self |-> s, computed |-> 0]

\* out[:, i]
Column(plane, i) == array([f \in DOMAIN plane |-> plane[f][i]])

RECURSIVE PerBaselineLoop(_, _, _, _, _)
RECURSIVE PerBaselineNext(_, _, _, _, _, _)
\* for i, (eva, eve) in enumerate(self.sing_eva), from baseline i on
PerBaselineLoop(i, out, ccs, evas, scale) ==
  IF i >= Len0(evas) THEN [raised |-> FALSE, out |-> out, cc |-> ccs]
  ELSE IF Len0(evas[i].eva) = 0 THEN [raised |-> TRUE, out |-> out, cc |-> ccs]
  ELSE PerBaselineNext(i, out, ccs, evas, scale,
                       FilterLoop(0, Column(out, i), 0, evas[i], scale))

\* baseline i done with outcome r: on to the next one
PerBaselineNext(i, out, ccs, evas, scale, r) ==
  LET
      SetColumn(plane, i0, col) ==
        array([f \in DOMAIN plane |-> [plane[f] EXCEPT ![i0] = col[f]]])
  IN
  PerBaselineLoop(i + 1, SetColumn(out, i, r.out), Append(ccs, r.cc), evas, scale)

\* return out, r being the outcome of the loop over the baselines on
\* out = np.copy(uvplane): the argument is left as it was
PerBaselineReturn(c, uvplane, r) ==
  [self |-> c.self, computed |-> c.computed, raised |-> r.raised,
   ret |-> IF r.raised THEN <<>> ELSE r.out, cc |-> r.cc, arg |-> uvplane]

\* the part of filter_FG_per_baseline after the cache lookup with outcome c
PerBaselineCached(c, uvplane, scale) ==
  PerBaselineReturn(c, uvplane,
                    PerBaselineLoop(0, uvplane, <<>>, c.self.sing_eva[1], scale))

filter_FG_per_baseline(s, uvplane, scale) ==
  PerBaselineCached(SingEvaCache(s), uvplane, scale)

(***************************************************************************)
(* get_errors.  The samplers of np.random are deterministic functions of   *)
(* the generator state: a standard normal draw is read off the state       *)
(* reached by the draw, normal(0, sigma) scales it by sigma, and           *)
(* multivariate_normal(mean, cov) mixes the draws with weights taken from  *)
(* cov (sigma^2 on the diagonal, sigma^2 r0/distance off it, standing for  *)
(* sigma^2/sqrt(distance/r0)).                                             *)
(***************************************************************************)
StdNormalOf(r) == (r % 3) - 1

RECURSIVE Draws(_, _)
\* the n generator states reached by n successive draws from state r
Draws(r, n) == IF n = 0 THEN <<>> ELSE <<RngNext(r)>> \o Draws(RngNext(r), n - 1)

\* the generator state after n draws
AfterDraws(r, n) == IF n = 0 THEN r ELSE Draws(r, n)[n]

\* np.random.normal(0, sigma, n)
np_random_normal(r, sigma, n) ==
  [k \in 0..(n-1) |-> sigma * StdNormalOf(Draws(r, n)[k + 1])]

\* the covariance get_errors builds, as integer weights
CovOf(s, error_sigma, r0) ==
  [i \in 0..(s.Ndishes - 1) |-> [j \in 0..(s.Ndishes - 1) |->
     IF i = j THEN error_sigma * error_sigma
     ELSE LET baseline_distance == Abs(s.dish_locations[j] - s.dish_locations[i])
          IN  (error_sigma * error_sigma * r0) \div baseline_distance]]

\* np.random.multivariate_normal(mean, cov), mean = 0
np_random_multivariate_normal(r, cov) ==
  LET n == Len0(cov)
      z == [k \in 0..(n-1) |-> StdNormalOf(Draws(r, n)[k + 1])]
  IN  [i \in 0..(n-1) |-> ISum([j \in 0..(n-1) |-> cov[i][j] * z[j]], 0..(n-1))]

\* get_errors(error_sigma, correlated, seed, r0=None) run on the generator:
\* the per-dish errors and the state the generator is left in
get_errors(s, error_sigma, correlated, seed) ==
  LET r  == np_random_seed(seed)
      r0 == LenUnit * s.DDish
  IN  [errors |-> IF correlated
                  THEN np_random_multivariate_normal(r, CovOf(s, error_sigma, r0))
                  ELSE np_random_normal(r, error_sigma, s.Ndishes),
       rng |-> AfterDraws(r, s.Ndishes)]

(***************************************************************************)
(* get_obs_uvplane                                                         *)
(***************************************************************************)
\* np.where(arr == v)[0]: the indices holding the value v, ascending
np_where_eq(arr, v) == {k \in DOMAIN arr : arr[k] = v}

\* np.where(arr == v)[0][0]
FirstIndexOf(arr, v) == CHOOSE k \in np_where_eq(arr, v) :
                          \A m \in np_where_eq(arr, v) : k <= m

\* mutant of DishIdxOfPair: the second lookup searches for dish1_loc again
DishIdxOfPair_samedish(s, k) ==
  LET locs == combinations2(s.dish_locations)[k]
  IN  <<FirstIndexOf(s.dish_locations, locs[1]), FirstIndexOf(s.dish_locations, locs[1])>>

\* mutant of DishIdxOfPair: the two positions of the pair taken in the
\* other order
DishIdxOfPair_swapped(s, k) ==
  LET locs == combinations2(s.dish_locations)[k]
  IN  <<FirstIndexOf(s.dish_locations, locs[2]), FirstIndexOf(s.dish_locations, locs[1])>>

\* the dish indices the code recovers for pair k from the two positions
DishIdxOfPair(s, k) ==
  LET locs == combinations2(s.dish_locations)[k]
  IN  <<FirstIndexOf(s.dish_locations, locs[1]), FirstIndexOf(s.dish_locations, locs[2])>>

\* the corrupted plane of the branch error_sigma > 0
Corrupt(s, uvplane, errors, time_error) ==
  LET
      \* uvplane_obs[i0, j0]: the mean over the pairs of baseline j0
      ObsEntry(s0, uvplane0, errors00, i0, j0, time_error00) ==
        LET
            \* the factor one pair contributes at frequency f
            PairFactor(errors0, d, f, time_error0) ==
              IF time_error0
              THEN \* phase_errors = errors0*f*1e6*2*pi; exp(1j*(phase[d2] - phase[d1]))
                   QOfC(CPowI(errors0[d[2]] * f - errors0[d[1]] * f))
              ELSE \* (1 + errors0[d1]) * (1 + errors0[d2])
                   QNorm(<<(AmpDen + errors0[d[1]]) * (AmpDen + errors0[d[2]]), 0, AmpDen * AmpDen>>)
        IN
        LET idxs == np_where_eq(s0.baseline_lengths, s0.unique_baseline_lengths[j0])
            uvplane_j == [k \in idxs |->
                            QMul(PairFactor(errors00, DishIdxOfPair(s0, k), freqs(s0)[i0], time_error00),
                                 uvplane0[i0][j0])]
        IN  QDivInt(QSum(uvplane_j, idxs), Cardinality(idxs))
  IN
  array([i \in 0..(s.Nfreq - 1) |-> [j \in 0..(NbOf(s) - 1) |->
           ObsEntry(s, uvplane, errors, i, j, time_error)]])

\* the default scale 1e-11 of filter_FG: on the integer eigenvalues of the
\* model (all below 10^5 in magnitude) it selects exactly the nonzero ones
DefaultScale == [num |-> 1, den |-> 100000]

\* mutant of AddsErrors: "if error_sigma >= 0"
AddsErrors_ge(error_sigma) == error_sigma >= 0

\* "if error_sigma > 0": whether errors are drawn and applied
AddsErrors(error_sigma) == error_sigma > 0

\* get_obs_uvplane(uvplane, error_sigma, correlated, time_error, seed, filter_FG)
\* run with the generator in state r.  An outcome carries, next to the
\* returned value ret, the content obs of the array uvplane_obs when the
\* call is over (the first element of the returned tuple is that array).
\* return (uvplane_obs, uvplane_obs_f, uvplane_obs_f1), f and f1 being the
\* outcomes of the two filters
ObsReturn(r1, f, f1) ==
  [self |-> f1.self, rng |-> r1, raised |-> f1.raised,
   ret |-> IF f1.raised THEN <<>> ELSE <<f1.arg, f.ret, f1.ret>>,
   eva |-> f.computed, sing_eva |-> f1.computed, obs |-> f1.arg]

\* uvplane_obs_f1 = self.filter_FG_per_baseline(uvplane_obs), uvplane_obs
\* being as filter_FG left it
ObsFiltered(r1, f) ==
  IF f.raised
  THEN [self |-> f.self, rng |-> r1, raised |-> TRUE, ret |-> <<>>,
        eva |-> f.computed, sing_eva |-> 0, obs |-> f.arg]
  ELSE ObsReturn(r1, f, filter_FG_per_baseline(f.self, f.arg, DefaultScale))

\* "if filter_FG:" with the corrupted plane uvplane_obs
ObsFilter(s, r1, uvplane_obs, filter) ==
  IF ~filter
  THEN [self |-> s, rng |-> r1, raised |-> FALSE, ret |-> uvplane_obs,
        eva |-> 0, sing_eva |-> 0, obs |-> uvplane_obs]
  ELSE ObsFiltered(r1, filter_FG(s, uvplane_obs, DefaultScale, <<>>))

\* "if error_sigma > 0:", ge being what get_errors gives when it is called
ObsErrors(s, r, uvplane, error_sigma, time_error, filter, ge) ==
  LET
      \* the caller's array when the call with outcome o is over: with
      \* "uvplane_obs = uvplane0" it is the array uvplane_obs itself
      ObsInput(uvplane0, error_sigma0, o) ==
        [input |-> IF AddsErrors(error_sigma0) THEN uvplane0 ELSE o.obs] @@ o
  IN
  ObsInput(uvplane, error_sigma,
           ObsFilter(s, IF AddsErrors(error_sigma) THEN ge.rng ELSE r,
                     IF AddsErrors(error_sigma)
                     THEN Corrupt(s, uvplane, ge.errors, time_error)
                     ELSE uvplane,
                     filter))

get_obs_uvplane(s, r, uvplane, error_sigma, correlated, time_error, seed, filter) ==
  ObsErrors(s, r, uvplane, error_sigma, time_error, filter,
            get_errors(s, error_sigma, correlated, seed))

(***************************************************************************)
(* Variables that a specification does not use keep these values.          *)
(***************************************************************************)
NoCall == [op |-> "new"]

NoPar == [pending |-> {}, results |-> <<>>, order |-> <<>>]

NoHist == [eva |-> 0, sing_eva |-> 0, first |-> <<>>, between |-> FALSE]

NoInp == [uvplane |-> <<>>]

(***************************************************************************)
(* SpecUV: the transforms image2uv, uv2image and uv2uvplane, applied to    *)
(* the instances whose padded buffer has a size in FftSizes.               *)
(***************************************************************************)
\* target indices are the quarter steps 0, 1/4, ..., MaxIdxQ/4
MaxIdxQ == 13
\* explicit one-dimensional index arrays have 1..MaxIdxLen entries
MaxIdxLen == 1

Images(s) == [0..(s.Npix - 1) -> 0..MaxPix]

InitUV ==
  LET
      UVConfigs == {c \in {2, 4} \X {1, 2} : (c[1] * c[2]) \in FftSizes}
  IN
  /\ \E c \in UVConfigs :
       self = Telescope1D(2, 2, 1, c[1], c[2], MinFreqU, MaxFreqU, TRUE, 0).self
  /\ rng = np_random_seed(0)
  /\ inp = NoInp
  /\ call = NoCall
  /\ par = NoPar
  /\ hist = NoHist

\* image2uv on an image of the caller, once per behaviour: the operations
\* of this specification keep no state
Image2uv ==
  /\ call.op = "new"
  /\ \E image \in Images(self) :
       call' = [op |-> "image2uv", image |-> image, ret |-> image2uv(self, image)]
  /\ UNCHANGED <<self, rng, inp, par, hist>>

\* uv2image applied to the uv array the preceding image2uv returned
Uv2image ==
  /\ call.op = "image2uv"
  /\ Len0(call.ret) = (self.Nfft \div 2) + 1
  /\ call' = [op |-> "uv2image", uv |-> call.ret, image |-> call.image,
              ret |-> uv2image(self, call.ret)]
  /\ UNCHANGED <<self, rng, inp, par, hist>>

Uv2uvplane ==
  LET
      CalledUv2uvplane(indices) ==
        call' = [op |-> "uv2uvplane", uv |-> call.ret, indices |-> indices,
                 ret |-> uv2uvplane(self, call.ret, indices)]
  IN
  LET
      \* the two-dimensional index arrays, of shape (Nfreq, 1)
      IndexArrays2(s) ==
        {[ndim |-> 2, v |-> [i \in 0..(s.Nfreq - 1) |->
                               [j \in {0} |-> ((q + 2 * i) % (MaxIdxQ + 1)) * (DoLDen \div 4)]]] :
           q \in 0..MaxIdxQ}
  IN
  LET
      \* indices=None and the one-dimensional index arrays
      IndexArrays1 ==
        LET
            IndexVals == {q * (DoLDen \div 4) : q \in 0..MaxIdxQ}
        IN
        {[ndim |-> 0]}
        \cup {[ndim |-> 1, v |-> a] :
                a \in UNION {[0..(n-1) -> IndexVals] : n \in 1..MaxIdxLen}}
  IN
  /\ call.op = "image2uv"
  /\ \/ \E indices \in IndexArrays1 : CalledUv2uvplane(indices)
     \/ \E indices \in IndexArrays2(self) : CalledUv2uvplane(indices)
  /\ UNCHANGED <<self, rng, inp, par, hist>>

NextUV == Image2uv \/ Uv2image \/ Uv2uvplane

SpecUV == InitUV /\ [][NextUV]_vars

(***************************************************************************)
(* C1 (as stated).  Round trip: uv2image(image2uv(x)) = x pixel by pixel,  *)
(* for every configuration with Npix_fft even and Npad >= 1.               *)
(***************************************************************************)
C1_RoundTrip == call.op = "uv2image" => call.ret = call.image

\* the round trip where the padded buffer is longer than the image
\* (Npad >= 2): the placement overwrites nothing there
C1_RoundTripPadded ==
  (call.op = "uv2image" /\ self.Npad >= 2) => call.ret = call.image

C1_Witness == call.op = "uv2image" /\ self.Npad >= 2 /\ call.image[self.Npix - 1] # call.image[0]

(***************************************************************************)
(* C7.  uv2uvplane: linear interpolation between the bracketing samples.   *)
(***************************************************************************)
\* the index arrays of the last uv2uvplane call, flattened to a set of
\* <<index, returned entry>> pairs
C7_Entries ==
  IF call.indices.ndim = 1
  THEN {<<call.indices.v[ii], call.ret[ii]>> : ii \in DOMAIN call.ret}
  ELSE LET v == IF call.indices.ndim = 0
                THEN [i \in DOMAIN self.DoL |->
                        [j \in DOMAIN self.DoL[i] |-> self.DoL[i][j] * self.Npad * 2]]
                ELSE call.indices.v
       IN  UNION {{<<v[i][j], call.ret[i][j]>> : j \in DOMAIN v[i]} : i \in DOMAIN v}

\* uv[floor t] + (t - floor t) * (uv[ceil t] - uv[floor t]), over DoLDen
C7_Interp(uv, t) ==
  LET fl == t \div DoLDen
      ce == IF fl * DoLDen = t THEN fl ELSE fl + 1
      n  == CAdd(CScale(DoLDen, uv[fl]), CScale(t - fl * DoLDen, CSub(uv[ce], uv[fl])))
  IN  QNorm(<<n[1], n[2], DoLDen>>)

C7_CeilOf(t) == IF (t \div DoLDen) * DoLDen = t THEN t \div DoLDen ELSE (t \div DoLDen) + 1

\* C7 (as stated): an entry is left zero only when the ceiling of its index
\* exceeds the length of uv; every other entry is the interpolated value.
C7_AsStated ==
  call.op = "uv2uvplane" =>
    \A e \in C7_Entries :
      IF C7_CeilOf(e[1]) > Len0(call.uv) THEN e[2] = QZero
      ELSE /\ C7_CeilOf(e[1]) \in DOMAIN call.uv
           /\ e[2] = C7_Interp(call.uv, e[1])

\* C7 (amended): an entry whose index ceiling is greater than or equal to
\* the length of uv (beyond the last sample, len(uv)-1) is left zero; every
\* other entry is uv[floor t] + (t - floor t)*(uv[ceil t] - uv[floor t]).
C7_Interpolation ==
  call.op = "uv2uvplane" =>
    \A e \in C7_Entries :
      IF C7_CeilOf(e[1]) >= Len0(call.uv) THEN e[2] = QZero
      ELSE e[2] = C7_Interp(call.uv, e[1])

\* a fractional index strictly inside the band, between two different samples
C7_Witness ==
  /\ call.op = "uv2uvplane"
  /\ \E e \in C7_Entries :
       /\ C7_CeilOf(e[1]) < Len0(call.uv)
       /\ e[1] % DoLDen # 0
       /\ call.uv[e[1] \div DoLDen] # call.uv[C7_CeilOf(e[1])]
       /\ e[2] # QZero
       /\ e[2] # QOfC(call.uv[e[1] \div DoLDen])
  /\ \E e \in C7_Entries : C7_CeilOf(e[1]) = Len0(call.uv)

(***************************************************************************)
(* SpecObs: construction and get_obs_uvplane on every layout the           *)
(* constructor yields for 1..MaxDishes dishes, with filtering on the       *)
(* layouts of fewer than MaxFGDishes unique baselines, and with every      *)
(* foreground matrix of the model on the redundant ones among them.        *)
(***************************************************************************)

UvPlanes(s) ==
  LET
      \* the uv-plane number p of shape Nfreq x Nb: distinct nonzero entries
      PlaneOf(p, Nfreq, Nb) ==
        [i \in 0..(Nfreq - 1) |-> [j \in 0..(Nb - 1) |-> <<1 + i + p, 1 + j, 1>>]]
  IN
               {PlaneOf(p, s.Nfreq, NbOf(s)) : p \in 0..MaxPlane}

\* the state a call of the constructor leaves: instance, generator, call
Constructed(Nfreq, Ndishes, DDish, Npix_fft, Npad, redundant, seed, fg) ==
  LET t == Telescope1D(Nfreq, Ndishes, DDish, Npix_fft, Npad, MinFreqU, MaxFreqU,
                       redundant, seed)
  IN  /\ self = [t.self EXCEPT !.fg = fg]
      /\ rng = t.rng
      /\ call = [op |-> "__init__", seed |-> seed, ret |-> t.self.dish_locations]

InitObs ==
  /\ \E Ndishes \in 1..MaxDishes, redundant \in BOOLEAN, seed \in Seeds,
        fg \in 0..MaxFG :
       /\ Constructed(MaxNfreq, Ndishes, 1, 2, 2, redundant, seed, fg)
       /\ fg = 0 \/ (NbOf(self) < MaxFGDishes /\ redundant /\ seed = 0)
  /\ \E uvplane \in UvPlanes(self), error_sigma \in 0..MaxSigma :
       inp = [uvplane |-> uvplane, error_sigma |-> error_sigma,
              modes |-> BOOLEAN \X BOOLEAN \X Seeds
                          \X (IF NbOf(self) < MaxFGDishes THEN BOOLEAN ELSE {FALSE})]
  /\ par = NoPar
  /\ hist = NoHist

\* get_obs_uvplane on the caller's uv-plane, in one of the caller's modes
GetObsUvplane ==
  LET
      \* the state a call get_obs_uvplane(...) with outcome r leaves
      CalledObs(m, r) ==
        /\ call' = [op |-> "get_obs_uvplane", uvplane |-> inp.uvplane,
                    error_sigma |-> inp.error_sigma, correlated |-> m[1],
                    time_error |-> m[2], seed |-> m[3], filter |-> m[4],
                    rng0 |-> rng, raised |-> r.raised, ret |-> r.ret, input |-> r.input]
        /\ self' = r.self
        /\ rng' = r.rng
        /\ hist' = [hist EXCEPT !.eva = Min(@ + r.eva, 2),
                                !.sing_eva = Min(@ + r.sing_eva, 2)]
        /\ UNCHANGED <<inp, par>>
  IN
  \E m \in inp.modes :
    CalledObs(m, get_obs_uvplane(self, rng, inp.uvplane, inp.error_sigma,
                                 m[1], m[2], m[3], m[4]))

\* one observation of a freshly constructed instance
ObserveOnce == call.op = "__init__" /\ GetObsUvplane

NextObs == ObserveOnce

SpecObs == InitObs /\ [][NextObs]_vars

(***************************************************************************)
(* C2 (as stated).  Redundancy invariant: a telescope built with           *)
(* redundant=True and Ndishes >= 2 has exactly one unique baseline length, *)
(* equal to DDish.                                                         *)
(***************************************************************************)
C2_OneUniqueBaseline ==
  (self.redundant /\ self.Ndishes >= 2) =>
     /\ Len0(self.unique_baseline_lengths) = 1
     /\ self.unique_baseline_lengths[0] = LenUnit * self.DDish

\* C2 (amended): with redundant=True and Ndishes >= 2 there are
\* Ndishes*(Ndishes-1)/2 baseline pairs and exactly Ndishes-1 unique
\* baseline lengths, the multiples k*DDish for k = 1..Ndishes-1; the
\* smallest equals DDish, and it is the only one exactly when Ndishes = 2.
C2_RedundantBaselines ==
  (self.redundant /\ self.Ndishes >= 2) =>
     /\ Len0(self.baseline_lengths) = (self.Ndishes * (self.Ndishes - 1)) \div 2
     /\ Len0(self.unique_baseline_lengths) = self.Ndishes - 1
     /\ \A k \in 1..(self.Ndishes - 1) :
          self.unique_baseline_lengths[k - 1] = k * LenUnit * self.DDish

\* the scenario of the spec: four dishes, six pairs
C2_Witness ==
  /\ self.redundant
  /\ self.Ndishes = 4
  /\ Len0(self.baseline_lengths) = 6
  /\ Len0(self.unique_baseline_lengths) = 3

(***************************************************************************)
(* C8.  Corruption and redundant averaging: the corrupted visibility of    *)
(* frequency i and unique baseline j is uvplane[i,j] times the arithmetic  *)
(* mean, over the dish pairs (d1,d2) separated by that baseline length, of *)
(* (1+e[d1])(1+e[d2]) or exp(i(phi[d2]-phi[d1])).                          *)
(***************************************************************************)
\* the dish pairs a < b whose separation is the unique baseline j
C8_Group(j) ==
  {d \in (0..(self.Ndishes - 1)) \X (0..(self.Ndishes - 1)) :
     /\ d[1] < d[2]
     /\ self.dish_locations[d[2]] - self.dish_locations[d[1]]
          = self.unique_baseline_lengths[j]}

C8_Factor(e, d, f) ==
  IF call.time_error
  THEN QOfC(CPowI((e[d[2]] - e[d[1]]) * f))
  ELSE QMul(<<AmpDen + e[d[1]], 0, AmpDen>>, <<AmpDen + e[d[2]], 0, AmpDen>>)

C8_Mean(e, j, f) ==
  QDivInt(QSum([d \in C8_Group(j) |-> C8_Factor(e, d, f)], C8_Group(j)),
          Cardinality(C8_Group(j)))

C8_RedundantAveraging ==
  (call.op = "get_obs_uvplane" /\ call.error_sigma > 0 /\ ~call.raised) =>
    LET e   == get_errors(self, call.error_sigma, call.correlated, call.seed).errors
        obs == IF call.filter THEN call.ret[1] ELSE call.ret
    IN  \A i \in 0..(self.Nfreq - 1), j \in 0..(NbOf(self) - 1) :
          obs[i][j] = QMul(call.uvplane[i][j],
                           C8_Mean(e, j, freqs(self)[i]))

\* a group of at least two pairs whose factors differ, so that the mean is
\* neither of them
C8_Witness ==
  /\ call.op = "get_obs_uvplane" /\ call.error_sigma > 0 /\ ~call.raised
  /\ \E j \in 0..(NbOf(self) - 1) :
       LET e == get_errors(self, call.error_sigma, call.correlated, call.seed).errors
       IN  /\ Cardinality(C8_Group(j)) >= 2
           /\ \E d1, d2 \in C8_Group(j) :
                C8_Factor(e, d1, MinFreqU) # C8_Factor(e, d2, MinFreqU)
           /\ call.ret[0][j] # call.uvplane[0][j]

(***************************************************************************)
(* C11.  Return value of get_obs_uvplane.  With filter_FG=True it is the   *)
(* triple (c, filter_FG(c), filter_FG_per_baseline(c)): both filtered      *)
(* planes are computed from the same corrupted plane c, and c as returned  *)
(* and the caller's uv-plane are as they were before the filters ran (also *)
(* when error_sigma = 0 and c is the caller's array itself).  With         *)
(* filter_FG=False it is c alone.                                          *)
(***************************************************************************)
\* the corrupted plane of the last call
C11_Corrupted ==
  IF call.error_sigma > 0
  THEN Corrupt(self, call.uvplane,
               get_errors(self, call.error_sigma, call.correlated, call.seed).errors,
               call.time_error)
  ELSE call.uvplane

C11_Triple(c) ==
  <<c, filter_FG(self, c, DefaultScale, <<>>).ret,
    filter_FG_per_baseline(self, c, DefaultScale).ret>>

C11_ReturnValue ==
  (call.op = "get_obs_uvplane" /\ ~call.raised) =>
    /\ call.input = call.uvplane
    /\ call.ret = IF call.filter THEN C11_Triple(C11_Corrupted) ELSE C11_Corrupted

\* a filtering call without errors, where the filters change the plane and
\* filtering the globally filtered plane per baseline would give another
\* third element
C11_Witness ==
  /\ call.op = "get_obs_uvplane" /\ ~call.raised /\ call.filter
  /\ call.error_sigma = 0
  /\ call.ret[2] # call.uvplane
  /\ call.ret[3] # filter_FG_per_baseline(self, call.ret[2], DefaultScale).ret

\* a filtering call with errors, where corruption and filters change the plane
C11_WitnessErrors ==
  /\ call.op = "get_obs_uvplane" /\ ~call.raised /\ call.filter
  /\ call.error_sigma > 0
  /\ call.ret[1] # call.uvplane
  /\ call.ret[2] # call.ret[1]

(***************************************************************************)
(* SpecFG: the foreground filters, and get_obs_uvplane with filtering, on  *)
(* the redundant instances of 1..MaxFGDishes dishes.  The                  *)
(* caller's uv-plane, scale and explicit matrix are fixed by the initial   *)
(* state (error_sigma is 0), the explicit matrix being the one after the   *)
(* instance's own in the family BlockMatrix; every call may come in any    *)
(* order, any number of times.                                             *)
(***************************************************************************)
Scales == {DefaultScale, [num |-> 1, den |-> 2], [num |-> 1, den |-> 1]}

InitFG ==
  /\ \E Ndishes \in 1..MaxFGDishes, fg \in 0..MaxFG :
       Constructed(MaxNfreq, Ndishes, 1, 2, 2, TRUE, 0, fg)
  /\ \E uvplane \in UvPlanes(self), scale \in Scales :
       inp = [uvplane |-> uvplane, error_sigma |-> 0,
              modes |-> {<<FALSE, TRUE, 0, TRUE>>},
              scale |-> scale,
              matrix |-> <<BlockMatrix(self.fg + 1, self.Nfreq, NbOf(self))>>]
  /\ par = NoPar
  /\ hist = NoHist

\* the state a call filter_FG(uvplane, scale, matrix) with outcome r leaves
CalledFilterFG(uvplane, matrix, again, r) ==
  /\ call' = [op |-> "filter_FG", uvplane |-> uvplane, scale |-> inp.scale,
              matrix |-> matrix, again |-> again, raised |-> r.raised,
              ret |-> r.ret, cc |-> r.cc]
  /\ self' = r.self
  /\ hist' = [hist EXCEPT !.eva = Min(@ + r.computed, 2)]
  /\ UNCHANGED <<rng, inp, par>>

CallFilterFG(uvplane, matrix, again) ==
  CalledFilterFG(uvplane, matrix, again, filter_FG(self, uvplane, inp.scale, matrix))

\* filter_FG on the caller's uv-plane, with the cached basis or a matrix
FilterFG == \E matrix \in {<<>>, inp.matrix} : CallFilterFG(inp.uvplane, matrix, FALSE)

\* filter_FG applied again to what filter_FG just returned, same basis and scale
RefilterFG ==
  /\ call.op = "filter_FG" /\ ~call.raised /\ ~call.again
  /\ CallFilterFG(call.ret, call.matrix, TRUE)

FilterFGPerBaseline ==
  LET
      \* the state a call filter_FG_per_baseline(uvplane, scale) with outcome r leaves
      CalledPerBaseline(r) ==
        /\ call' = [op |-> "filter_FG_per_baseline", uvplane |-> inp.uvplane,
                    scale |-> inp.scale, raised |-> r.raised, ret |-> r.ret, cc |-> r.cc]
        /\ self' = r.self
        /\ hist' = [hist EXCEPT !.sing_eva = Min(@ + r.computed, 2)]
        /\ UNCHANGED <<rng, inp, par>>
  IN
  CalledPerBaseline(filter_FG_per_baseline(self, inp.uvplane, inp.scale))

NextFG == FilterFG \/ RefilterFG \/ FilterFGPerBaseline \/ GetObsUvplane

SpecFG == InitFG /\ [][NextFG]_vars

(***************************************************************************)
(* C3.  get_obs_uvplane with error_sigma = 0: the corrupted plane (the     *)
(* return value without filtering, the first element of the returned tuple *)
(* with filtering) is the caller's uv-plane entry by entry, and no error   *)
(* is drawn: the shared generator is in the state it was in at the call.   *)
(***************************************************************************)
C3_ZeroErrorNoOp ==
  (call.op = "get_obs_uvplane" /\ call.error_sigma = 0 /\ ~call.raised) =>
    /\ (IF call.filter THEN call.ret[1] ELSE call.ret) = call.uvplane
    /\ rng = call.rng0

\* a filtering call without errors on a plane that the filter does change
C3_Witness ==
  /\ call.op = "get_obs_uvplane" /\ call.error_sigma = 0 /\ ~call.raised
  /\ call.filter /\ call.correlated /\ call.time_error
  /\ call.ret[2] # call.uvplane
  /\ call.ret[1] = call.uvplane

(***************************************************************************)
(* C6.  self.eva and self.sing_eva are each computed at most once, by the  *)
(* first call that needs them (filter_FG without a matrix,                 *)
(* filter_FG_per_baseline, get_obs_uvplane with filtering); once set they  *)
(* hold the decomposition of the instance's own matrix and no later call   *)
(* changes them; filter_FG with an explicit matrix leaves the instance as  *)
(* it was.                                                                 *)
(***************************************************************************)
C6_Caches ==
  /\ hist.eva <= 1 /\ hist.sing_eva <= 1
  /\ (self.eva # <<>>) <=> (hist.eva = 1)
  /\ (self.sing_eva # <<>>) <=> (hist.sing_eva = 1)
  /\ self.eva # <<>> =>
       self.eva[1] = decompose_filtering(get_FG_filtering_matrix_inverse(self))

C6_Step ==
  /\ self.eva # <<>> => self'.eva = self.eva
  /\ self.sing_eva # <<>> => self'.sing_eva = self.sing_eva
  /\ (call'.op = "filter_FG" /\ call'.matrix # <<>>) => (self' = self /\ hist' = hist)
  /\ (call'.op = "filter_FG" /\ call'.matrix = <<>>) => self'.eva # <<>>
  /\ call'.op = "filter_FG_per_baseline" => self'.sing_eva # <<>>
  /\ (call'.op = "get_obs_uvplane" /\ call'.filter) =>
       (self'.eva # <<>> /\ (~call'.raised => self'.sing_eva # <<>>))

C6_Memoization == [](C6_Caches) /\ [][C6_Step]_vars

\* both caches in place, and filter_FG without a matrix called once more
C6_Witness ==
  /\ hist.eva = 1 /\ hist.sing_eva = 1
  /\ call.op = "filter_FG" /\ call.matrix = <<>> /\ call.again /\ ~call.raised

(***************************************************************************)
(* C9.  filter_FG, and filter_FG_per_baseline for the basis of each        *)
(* baseline, apply the projection step to exactly the eigenpairs with      *)
(* |eigenvalue| > scale * max|eigenvalue|, in the order of the basis: the  *)
(* count of filtered modes is the number of such eigenvalues, a mode of    *)
(* largest magnitude is among them when the maximum is positive and        *)
(* scale < 1, and the output is the input when every eigenvalue is zero.   *)
(***************************************************************************)
C9_Max(eva) == CHOOSE m \in {Abs(eva[k]) : k \in DOMAIN eva} :
                 \A k \in DOMAIN eva : Abs(eva[k]) <= m

C9_Modes(e, scale) ==
  {k \in DOMAIN e.eva : Abs(e.eva[k]) * scale.den > C9_Max(e.eva) * scale.num}

RECURSIVE C9_Apply(_, _, _)
C9_Apply(out, e, ks) ==
  IF ks = {} THEN out
  ELSE LET k == CHOOSE x \in ks : \A y \in ks : x <= y
       IN  C9_Apply(FilterStep(out, e.eve[k]), e, ks \ {k})

C9_Rule(e, scale, in, out, cc) ==
  LET S == C9_Modes(e, scale)
  IN  /\ cc = Cardinality(S)
      /\ out = C9_Apply(in, e, S)
      /\ (C9_Max(e.eva) > 0 /\ scale.num < scale.den) =>
           \E k \in S : Abs(e.eva[k]) = C9_Max(e.eva)
      /\ C9_Max(e.eva) = 0 => out = in

C9_ThresholdRule ==
  /\ (call.op = "filter_FG" /\ ~call.raised) =>
       C9_Rule(IF call.matrix = <<>> THEN self.eva[1]
               ELSE decompose_filtering(call.matrix[1]),
               call.scale, flatten(call.uvplane), flatten(call.ret), call.cc)
  /\ (call.op = "filter_FG_per_baseline" /\ ~call.raised) =>
       \A i \in 0..(NbOf(self) - 1) :
         C9_Rule(self.sing_eva[1][i], call.scale, Column(call.uvplane, i),
                 Column(call.ret, i), call.cc[i + 1])

\* a basis with an eigenvalue above and a nonzero eigenvalue not above the
\* threshold, and a plane that the filter changes
C9_Witness ==
  /\ call.op = "filter_FG" /\ ~call.raised /\ call.matrix # <<>>
  /\ call.cc = 1 /\ call.ret # call.uvplane
  /\ \A k \in DOMAIN decompose_filtering(call.matrix[1]).eva :
       decompose_filtering(call.matrix[1]).eva[k] # 0

\* every eigenvalue zero: nothing is filtered
C9_WitnessZero ==
  /\ call.op = "filter_FG" /\ ~call.raised /\ call.cc = 0
  /\ \E i \in DOMAIN call.uvplane : \E j \in DOMAIN call.uvplane[i] :
       call.uvplane[i][j] # QZero

(***************************************************************************)
(* C10 (as stated).  Idempotence of filter_FG: applied to its own output   *)
(* with the same basis and scale it returns its input.                     *)
(***************************************************************************)
C10_Idempotent ==
  (call.op = "filter_FG" /\ call.again /\ ~call.raised) => call.ret = call.uvplane

(***************************************************************************)
(* The seeded generators of skies and signals.  Every one of them calls    *)
(* np.random.seed(seed) first; r is the state of the shared generator at   *)
(* the call.  The samplers are deterministic functions of the generator    *)
(* state reached by each draw; what they return is given in units of a     *)
(* quarter where the sampler is continuous.                                *)
(***************************************************************************)
\* image[idx[i]] = 1e4
SourceFlux == 10000

\* p = p * 100
PoissonScale == 100

\* np.zeros(self.Npix)
empty_image(s) == Zeros(s.Npix)

\* np.random.uniform(0, high) read off the state r reached by the draw,
\* in quarters
UniformOf(r, high) == high * (r % 4)

\* mutant of get_point_source_sky: image[idx[i]] += 1e4
get_point_source_sky_add(s, r, idx, n, seed) ==
  LET r0  == np_random_seed(seed)
      nn  == IF idx = <<>> THEN n ELSE Len(idx[1])
      ids == IF idx = <<>>
             THEN [i \in 1..n |-> RandintOf(Draws(r0, n)[i], 0, s.Npix_fft)]
             ELSE idx[1]
  IN  [ret |-> [k \in 0..(s.Npix - 1) |->
                  Cardinality({i \in 1..nn : ids[i] = k}) * SourceFlux],
       rng |-> IF idx = <<>> THEN AfterDraws(r0, n) ELSE r0]

\* get_point_source_sky(idx, n, seed); idx is <<>> for None, <<list>> otherwise
get_point_source_sky(s, r, idx, n, seed) ==
  LET r0  == np_random_seed(seed)
      nn  == IF idx = <<>> THEN n ELSE Len(idx[1])
      ids == IF idx = <<>>
             THEN [i \in 1..n |-> RandintOf(Draws(r0, n)[i], 0, s.Npix_fft)]
             ELSE idx[1]
  IN  [ret |-> [k \in 0..(s.Npix - 1) |->
                  IF \E i \in 1..nn : ids[i] = k THEN SourceFlux ELSE empty_image(s)[k]],
       rng |-> IF idx = <<>> THEN AfterDraws(r0, n) ELSE r0]

\* get_gaussian_sky(mean=0, sigma_o, sigma_f, seed)
get_gaussian_sky(s, r, sigma_o, seed) ==
  LET
      \* scipy.ndimage.gaussian_filter(g, sigma): a fixed symmetric smoothing
      \* kernel (1, 2, 1) with the reflecting boundary of the default mode
      gaussian_filter(g) ==
        LET n == Len0(g)
            at(k) == g[IF k < 0 THEN 0 ELSE IF k > n - 1 THEN n - 1 ELSE k]
        IN  [k \in 0..(n - 1) |-> at(k - 1) + 2 * at(k) + at(k + 1)]
  IN
  LET r0 == np_random_seed(seed)
  IN  [ret |-> gaussian_filter(np_random_normal(r0, sigma_o, s.Npix)),
       rng |-> AfterDraws(r0, s.Npix)]

\* get_poisson_sky(lam, seed)
get_poisson_sky(s, r, seed) ==
  LET
      \* np.random.poisson(lam) read off the state r00 reached by the draw
      PoissonOf(r00) == r00 % 2
  IN
  LET r0 == np_random_seed(seed)
  IN  [ret |-> [k \in 0..(s.Npix - 1) |->
                  PoissonOf(Draws(r0, s.Npix)[k + 1]) * PoissonScale],
       rng |-> AfterDraws(r0, s.Npix)]

\* mutant of get_uniform_sky: np.random.seed(seed) is missing
get_uniform_sky_unseeded(s, r, high, seed) ==
  [ret |-> [k \in 0..(s.Npix - 1) |-> UniformOf(Draws(r, s.Npix)[k + 1], high)],
   rng |-> AfterDraws(r, s.Npix)]

\* get_uniform_sky(high, seed)
get_uniform_sky(s, r, high, seed) ==
  LET r0 == np_random_seed(seed)
  IN  [ret |-> [k \in 0..(s.Npix - 1) |-> UniformOf(Draws(r0, s.Npix)[k + 1], high)],
       rng |-> AfterDraws(r0, s.Npix)]

\* get_signal(level, seed): np.random.normal(0, 1, (Nfreq, Npix))
get_signal(s, r, seed) ==
  LET r0 == np_random_seed(seed)
      n  == s.Nfreq * s.Npix
  IN  [ret |-> [i \in 0..(s.Nfreq - 1) |-> [k \in 0..(s.Npix - 1) |->
                  StdNormalOf(Draws(r0, n)[i * s.Npix + k + 1])]],
       rng |-> AfterDraws(r0, n)]

(***************************************************************************)
(* SpecRng: the seeded operations called in any order on the shared        *)
(* generator.  A call records its operation, arguments, the instance it    *)
(* ran on and its output; hist.first keeps one earlier call, chosen        *)
(* freely, for comparison with later ones, and hist.between tells whether  *)
(* a different call has been made since.                                   *)
(***************************************************************************)
\* the source counts and index lists handed to get_point_source_sky
MaxSources == 2

InitRng ==
  /\ \E redundant \in BOOLEAN, seed \in Seeds :
       LET t == Telescope1D(MaxNfreq, MaxDishes, 1, 2, 1, MinFreqU, MaxFreqU,
                            redundant, seed)
       IN  /\ self = t.self
           /\ rng = t.rng
           /\ call = [op |-> "__init__", args |-> <<redundant, seed>>, inst |-> <<>>,
                      ret |-> t.self.dish_locations]
  /\ inp = NoInp
  /\ par = NoPar
  /\ hist = NoHist

\* the bookkeeping of a finished call with output ret, generator left in r1
Called(op, args, inst, ret, r1) ==
  LET rec  == [op |-> op, args |-> args, inst |-> inst, ret |-> ret]
      same == rec.op = hist.first[1].op /\ rec.args = hist.first[1].args
              /\ rec.inst = hist.first[1].inst
  IN  /\ call' = rec
      /\ rng' = r1
      /\ IF hist.first = <<>>
         THEN \E keep \in BOOLEAN :
                hist' = IF keep THEN [hist EXCEPT !.first = <<rec>>] ELSE hist
         ELSE hist' = [hist EXCEPT !.between = @ \/ ~same]
      /\ UNCHANGED <<inp, par>>

Construct ==
  \E seed \in Seeds :
    LET t == Telescope1D(self.Nfreq, self.Ndishes, self.DDish, self.Npix_fft,
                         self.Npad, self.minfreq, self.maxfreq, self.redundant, seed)
    IN  /\ self' = t.self
        /\ Called("__init__", <<self.redundant, seed>>, <<>>, t.self.dish_locations,
                  t.rng)

GetSignal ==
  \E seed \in Seeds :
    LET c == get_signal(self, rng, seed)
    IN  Called("get_signal", <<seed>>, self, c.ret, c.rng) /\ UNCHANGED self

GetPointSourceSky ==
  LET
      IdxLists == {<<0>>, <<1, 0>>}
  IN
  \E seed \in Seeds,
     a \in ({<<>>} \X (1..MaxSources)) \cup ({<<l>> : l \in IdxLists} \X {MaxSources}) :
    LET c == get_point_source_sky(self, rng, a[1], a[2], seed)
    IN  Called("get_point_source_sky", <<a[1], a[2], seed>>, self, c.ret, c.rng)
        /\ UNCHANGED self

GetGaussianSky ==
  \E seed \in Seeds, sigma_o \in 1..MaxSigma :
    LET c == get_gaussian_sky(self, rng, sigma_o, seed)
    IN  Called("get_gaussian_sky", <<sigma_o, seed>>, self, c.ret, c.rng)
        /\ UNCHANGED self

GetPoissonSky ==
  \E seed \in Seeds :
    LET c == get_poisson_sky(self, rng, seed)
    IN  Called("get_poisson_sky", <<seed>>, self, c.ret, c.rng) /\ UNCHANGED self

GetUniformSky ==
  \E seed \in Seeds, high \in 1..MaxSources :
    LET c == get_uniform_sky(self, rng, high, seed)
    IN  Called("get_uniform_sky", <<high, seed>>, self, c.ret, c.rng)
        /\ UNCHANGED self

GetErrorsSeeded ==
  \E seed \in Seeds, correlated \in BOOLEAN, error_sigma \in 1..MaxSigma :
    LET c == get_errors(self, error_sigma, correlated, seed)
    IN  Called("get_errors", <<error_sigma, correlated, seed>>, self, c.errors, c.rng)
        /\ UNCHANGED self

NextRng ==
  \/ Construct \/ GetSignal \/ GetPointSourceSky \/ GetGaussianSky
  \/ GetPoissonSky \/ GetUniformSky \/ GetErrorsSeeded

SpecRng == InitRng /\ [][NextRng]_vars

(***************************************************************************)
(* C4.  A seeded operation called with the operation, arguments and        *)
(* instance of an earlier call returns the output of that call, whatever   *)
(* state the calls in between left the shared generator in.                *)
(***************************************************************************)
C4_SameCall(a, b) == a.op = b.op /\ a.args = b.args /\ a.inst = b.inst

C4_Deterministic ==
  (hist.first # <<>> /\ C4_SameCall(call, hist.first[1])) =>
    call.ret = hist.first[1].ret

\* the same call made again after a different one, with an output that is
\* not constant
C4_Witness ==
  /\ hist.first # <<>> /\ C4_SameCall(call, hist.first[1])
  /\ hist.between
  /\ call.op = "get_uniform_sky"
  /\ \E k \in DOMAIN call.ret : call.ret[k] # call.ret[0]

(***************************************************************************)
(* observe_image.  beam^2/cos(alpha) is transcendental: get_p2fac stands   *)
(* for it with a table of positive integers that differ from frequency to  *)
(* frequency and from pixel to pixel.  An image is [ndim |-> 1, v |-> row] *)
(* or [ndim |-> 2, v |-> rows].  joblib's Parallel runs one task per       *)
(* frequency; the tasks finish in any order and the list Parallel returns  *)
(* is in the order of submission.                                          *)
(***************************************************************************)
get_p2fac(s) ==
  [i \in 0..(s.Nfreq - 1) |-> [k \in 0..(s.Npix - 1) |-> 1 + i + ((i + k) % 2)]]

\* image[None,:] * p2fac, or image * p2fac
msky2dOf(s, image) ==
  [i \in 0..(s.Nfreq - 1) |-> [k \in 0..(s.Npix - 1) |->
     (IF image.ndim = 1 THEN image.v[k] ELSE image.v[i][k]) * get_p2fac(s)[i][k]]]

\* process_freq(i, f)
process_freq(s, msky2d, i) ==
  LET msky == msky2d[i]
      uv   == image2uv(s, msky)
  IN  uv2uvplane(s, uv, [ndim |-> 1,
                         v |-> [j \in 0..(NbOf(s) - 1) |-> DoL2ndx(s, s.DoL[i][j])]])

\* mutant of Collect: the results in the order the tasks finished
Collect_completion(s, p) == [k \in 0..(s.Nfreq - 1) |-> p.results[p.order[k + 1]]]

\* np.array(Parallel(...)(...)): the results in the order of submission
Collect(s, p) == [i \in 0..(s.Nfreq - 1) |-> p.results[i]]

(***************************************************************************)
(* SpecPar: observe_image on instances of 1..MaxFGDishes + 1 dishes, with  *)
(* flat and per-frequency images; the per-frequency tasks complete one at  *)
(* a time in any order.                                                    *)
(***************************************************************************)

InitPar ==
  LET
      \* images with one row per frequency
      ParImages2(s) ==
        {[ndim |-> 2, v |-> [i \in 0..(s.Nfreq - 1) |->
                               [k \in 0..(s.Npix - 1) |-> im[(k + i) % s.Npix]]]] :
           im \in Images(s)}
  IN
  LET
      \* flat images
      ParImages1(s) == {[ndim |-> 1, v |-> im] : im \in Images(s)}
  IN
  /\ \E Nfreq \in 1..MaxNfreq, Ndishes \in 1..(MaxFGDishes + 1), redundant \in BOOLEAN :
       Constructed(Nfreq, Ndishes, 1, 2, 2, redundant, 0, 0)
  /\ \/ \E image \in ParImages1(self) : inp = [image |-> image]
     \/ \E image \in ParImages2(self) : inp = [image |-> image]
  /\ par = NoPar
  /\ hist = NoHist

\* observe_image up to the submission of the tasks
ObserveImage ==
  /\ par.pending = {} /\ call.op # "submitted"
  /\ par' = [pending |-> 0..(self.Nfreq - 1), results |-> <<>>, order |-> <<>>]
  /\ call' = [op |-> "submitted", image |-> inp.image]
  /\ UNCHANGED <<self, rng, inp, hist>>

\* one task finishes
TaskDone ==
  /\ \E i \in par.pending :
       par' = [pending |-> par.pending \ {i},
               results |-> (i :> process_freq(self, msky2dOf(self, call.image), i))
                           @@ par.results,
               order |-> Append(par.order, i)]
  /\ UNCHANGED <<self, rng, inp, call, hist>>

\* all tasks have finished: observe_image returns the uv-plane
ObserveReturn ==
  /\ call.op = "submitted" /\ par.pending = {}
  /\ call' = [op |-> "observe_image", image |-> call.image, ret |-> Collect(self, par)]
  /\ UNCHANGED <<self, rng, inp, par, hist>>

NextPar == ObserveImage \/ TaskDone \/ ObserveReturn

SpecPar == InitPar /\ [][NextPar]_vars

(***************************************************************************)
(* C5.  Whatever order the per-frequency tasks of observe_image finish     *)
(* in, the returned uv-plane has one row per frequency and one column per  *)
(* unique baseline, and row i is the transform of image row i times beam   *)
(* row i, resampled at the indices of frequency i: the result of running the    *)
(* tasks one after the other.                                              *)
(***************************************************************************)
C5_Row(i) ==
  LET row  == IF call.image.ndim = 1 THEN call.image.v ELSE call.image.v[i]
      msky == [k \in 0..(self.Npix - 1) |-> row[k] * get_p2fac(self)[i][k]]
      idx  == [j \in 0..(NbOf(self) - 1) |-> self.DoL[i][j] * self.Npad * 2]
  IN  uv2uvplane(self, image2uv(self, msky), [ndim |-> 1, v |-> idx])

C5_OrderPreserved ==
  call.op = "observe_image" =>
    /\ DOMAIN call.ret = 0..(self.Nfreq - 1)
    /\ \A i \in 0..(self.Nfreq - 1) :
         /\ DOMAIN call.ret[i] = 0..(NbOf(self) - 1)
         /\ call.ret[i] = C5_Row(i)

\* the last task finished first, and the rows differ
C5_Witness ==
  /\ call.op = "observe_image"
  /\ self.Nfreq >= 2
  /\ par.order[1] = self.Nfreq - 1
  /\ call.ret[0] # call.ret[1]

(***************************************************************************)
(* C14 (as stated), on SpecObs.  Single dish: construction yields no       *)
(* baseline pair and no unique baseline length, and get_obs_uvplane on the *)
(* uv-plane that observe_image returns completes with empty (Nfreq x 0)    *)
(* results, for every error_sigma >= 0 and for filter_FG true and false.   *)
(***************************************************************************)
\* what observe_image returns for the empty sky
C14_Observed ==
  [i \in 0..(self.Nfreq - 1) |->
     process_freq(self, msky2dOf(self, [ndim |-> 1, v |-> empty_image(self)]), i)]

C14_Empty(plane) ==
  /\ DOMAIN plane = 0..(self.Nfreq - 1)
  /\ \A i \in DOMAIN plane : DOMAIN plane[i] = {}

C14_SingleDish ==
  self.Ndishes = 1 =>
    /\ Len0(self.baseline_lengths) = 0
    /\ Len0(self.unique_baseline_lengths) = 0
    /\ C14_Empty(C14_Observed)
    /\ (call.op = "get_obs_uvplane" /\ call.uvplane = C14_Observed) =>
         /\ ~call.raised
         /\ IF call.filter
            THEN \A e \in 1..3 : C14_Empty(call.ret[e])
            ELSE C14_Empty(call.ret)

\* the single dish without filtering: the empty path the claim describes
C14_SingleDishUnfiltered ==
  self.Ndishes = 1 =>
    /\ Len0(self.baseline_lengths) = 0
    /\ Len0(self.unique_baseline_lengths) = 0
    /\ C14_Empty(C14_Observed)
    /\ (call.op = "get_obs_uvplane" /\ call.uvplane = C14_Observed /\ ~call.filter) =>
         (~call.raised /\ C14_Empty(call.ret))

(***************************************************************************)
(* get_rmap_ps and get_uvplane_ps: the binning of the power spectra.  The  *)
(* unbinned spectrum of a chunk, np.abs(rfft(tofft, axis=0)**2) or the     *)
(* cross product, involves the window function and is not computed here:   *)
(* PsChunk stands for it with a table of the shape the transform gives,    *)
(* n*(1+padding)//2 + 1 rows, whose cells all differ.  A binning outcome   *)
(* is [raised, ret]; raised stands for the ValueError of reshape and the   *)
(* ZeroDivisionError of n_rows//n_row_bins.                                *)
(***************************************************************************)
\* the spectra are binned by factors 1..MaxBin
MaxBin == 3
\* padding is 0..MaxPad
MaxPad == 1
\* Nfreqchunks is 1..MaxChunks
MaxChunks == 2

\* "After getting the power spectra, bin in both x and y directions", for
\* the list ps of Nfreqchunks spectra of shape (n_rows, n_cols)
ps_binned(Nfreqchunks, n_rows, n_cols, m_freq, m) ==
  LET
      \* the unbinned spectrum of chunk i0, of the shape (n_rows0, n_cols0)
      PsChunk(i0, n_rows0, n_cols0) ==
        [r \in 0..(n_rows0 - 1) |-> [c \in 0..(n_cols0 - 1) |-> 1 + i0 + r * n_cols0 + c]]
  IN
  LET
      \* ps_chunk[:rows, :cols].reshape(a, rf, b, cf).sum(axis=3).sum(axis=1)
      BinChunk(ps_chunk, rows, cols, a, rf, b, cf) ==
        LET flat == flatten([r \in 0..(Min(rows, Rows(ps_chunk)) - 1) |->
                               [c \in 0..(Min(cols, Cols(ps_chunk)) - 1) |-> ps_chunk[r][c]]])
        IN  IF Len0(flat) # a * rf * b * cf
            THEN [raised |-> TRUE, ret |-> <<>>]
            ELSE [raised |-> FALSE,
                  ret |-> [x \in 0..(a - 1) |-> [y \in 0..(b - 1) |->
                             ISum([k \in 0..(rf * cf - 1) |->
                                     flat[((x * rf + (k \div cf)) * b + y) * cf + (k % cf)]],
                                  0..(rf * cf - 1))]]]
  IN
  LET ps         == [i \in 0..(Nfreqchunks - 1) |-> PsChunk(i, n_rows, n_cols)]
      n_row_bins == n_rows \div m_freq
      n_col_bins == n_cols \div m
      binned     == [i \in 0..(Nfreqchunks - 1) |->
                       BinChunk(ps[i], m_freq * n_row_bins, m * n_col_bins,
                                n_row_bins, n_rows \div n_row_bins,
                                n_col_bins, n_cols \div n_col_bins)]
  IN  IF n_row_bins = 0 \/ n_col_bins = 0 \/ \E i \in DOMAIN binned : binned[i].raised
      THEN [raised |-> TRUE, ps |-> ps, n_rows |-> n_rows, n_cols |-> n_cols, ret |-> <<>>]
      ELSE [raised |-> FALSE, ps |-> ps, n_rows |-> n_rows, n_cols |-> n_cols,
            ret |-> [i \in DOMAIN binned |-> binned[i].ret]]

\* get_rmap_ps(rmap, Nfreqchunks, m_alpha, m_freq, padding) up to ps_binned
get_rmap_ps(s, Nfreqchunks, m_alpha, m_freq, padding) ==
  ps_binned(Nfreqchunks, (((s.Nfreq \div Nfreqchunks) * (1 + padding)) \div 2) + 1,
            s.Npix, m_freq, m_alpha)

\* get_uvplane_ps(uvplane, Nfreqchunks, m_baselines, m_freq, padding) up to
\* ps_binned
get_uvplane_ps(s, Nfreqchunks, m_baselines, m_freq, padding) ==
  ps_binned(Nfreqchunks, (((s.Nfreq \div Nfreqchunks) * (1 + padding)) \div 2) + 1,
            NbOf(s), m_freq, m_baselines)

(***************************************************************************)
(* SpecPS: the two power spectra binned once on a new redundant instance,  *)
(* with every bin factor that does not exceed the axis it bins.            *)
(***************************************************************************)
InitPS ==
  /\ \E Nfreq \in 1..(MaxNfreq * MaxChunks), Ndishes \in 2..MaxDishes,
        Npix_fft \in FftSizes :
       Constructed(Nfreq, Ndishes, 1, Npix_fft, 1, TRUE, 0, 0)
  /\ inp = NoInp
  /\ par = NoPar
  /\ hist = NoHist

\* the state a binning call with outcome r leaves
CalledPs(op, m_freq, m, r) ==
  /\ m_freq <= r.n_rows /\ m <= r.n_cols
  /\ call' = [op |-> op, m_freq |-> m_freq, m |-> m, ps |-> r.ps,
              n_rows |-> r.n_rows, n_cols |-> r.n_cols,
              raised |-> r.raised, ret |-> r.ret]
  /\ UNCHANGED <<self, rng, inp, par, hist>>

GetRmapPs ==
  /\ call.op = "__init__"
  /\ \E Nfreqchunks \in 1..MaxChunks, padding \in 0..MaxPad,
        m_freq \in 1..MaxBin, m_alpha \in 1..MaxBin :
       CalledPs("get_rmap_ps", m_freq, m_alpha,
                get_rmap_ps(self, Nfreqchunks, m_alpha, m_freq, padding))

GetUvplanePs ==
  /\ call.op = "__init__"
  /\ \E Nfreqchunks \in 1..MaxChunks, padding \in 0..MaxPad,
        m_freq \in 1..MaxBin, m_baselines \in 1..MaxBin :
       CalledPs("get_uvplane_ps", m_freq, m_baselines,
                get_uvplane_ps(self, Nfreqchunks, m_baselines, m_freq, padding))

NextPS == GetRmapPs \/ GetUvplanePs

SpecPS == InitPS /\ [][NextPS]_vars

(***************************************************************************)
(* C12 (as stated).  Binning: for bin factors m_freq, m >= 1 that do not   *)
(* exceed the axis lengths, the operation completes, the binned spectrum   *)
(* of each chunk has floor(n_rows/m_freq) x floor(n_cols/m) cells and each *)
(* cell is the sum of the m_freq x m adjacent unbinned cells.              *)
(***************************************************************************)
C12_Cell(chunk, a, b) ==
  ISum([k \in 0..(call.m_freq * call.m - 1) |->
          chunk[a * call.m_freq + (k \div call.m)][b * call.m + (k % call.m)]],
       0..(call.m_freq * call.m - 1))

C12_Binned ==
  \A i \in DOMAIN call.ps :
    /\ DOMAIN call.ret[i] = 0..((call.n_rows \div call.m_freq) - 1)
    /\ \A a \in DOMAIN call.ret[i] :
         /\ DOMAIN call.ret[i][a] = 0..((call.n_cols \div call.m) - 1)
         /\ \A b \in DOMAIN call.ret[i][a] :
              call.ret[i][a][b] = C12_Cell(call.ps[i], a, b)

C12_Binning ==
  call.op \in {"get_rmap_ps", "get_uvplane_ps"} => (~call.raised /\ C12_Binned)

\* where the operation completes, the cells are the sums the claim states
C12_BinningCompleted ==
  (call.op \in {"get_rmap_ps", "get_uvplane_ps"} /\ ~call.raised) => C12_Binned

\* a completed binning that discards a row and sums more than one cell
C12_Witness ==
  /\ call.op = "get_rmap_ps" /\ ~call.raised
  /\ call.m_freq > 1 /\ call.m > 1
  /\ call.n_rows % call.m_freq # 0

(***************************************************************************)
(* SpecGeom: the constructor on every configuration of -1..MaxDishes       *)
(* dishes, dish sizes 1..MaxDDish, the three orderings of the band limits  *)
(* and seeds 0..MaxGeomSeed (every state of the generator), followed by    *)
(* the dish lookups get_obs_uvplane makes for the baseline pairs.  No      *)
(* statement of __init__ tests its arguments, and np.arange, combinations, *)
(* np.unique, np.linspace and np.outer accept empty and descending inputs: *)
(* the constructor returns an instance for each of these configurations.   *)
(***************************************************************************)
\* DDish is 1..MaxDDish metres
MaxDDish == 2
\* the constructor's seed is 0..MaxGeomSeed
MaxGeomSeed == 15

InitGeom ==
  /\ self = <<>>
  /\ rng = np_random_seed(0)
  /\ inp = NoInp
  /\ call = NoCall
  /\ par = NoPar
  /\ hist = NoHist

\* Telescope1D(Nfreq, Ndishes, DDish, Npix_fft, Npad, minfreq, maxfreq,
\* redundant, seed)
Build ==
  LET
      \* (minfreq, maxfreq): ascending, equal, descending
      Bands == {<<MinFreqU, MaxFreqU>>, <<MinFreqU, MinFreqU>>, <<MaxFreqU, MinFreqU>>}
  IN
  /\ call.op = "new"
  /\ \E Ndishes \in (-1)..MaxDishes, DDish \in 1..MaxDDish, band \in Bands,
        redundant \in BOOLEAN, seed \in 0..MaxGeomSeed :
       LET t == Telescope1D(MaxNfreq, Ndishes, DDish, 2, 2, band[1], band[2],
                            redundant, seed)
       IN  /\ self' = t.self
           /\ rng' = t.rng
           /\ call' = [op |-> "__init__", seed |-> seed, raised |-> FALSE,
                       ret |-> t.self.dish_locations]
  /\ UNCHANGED <<inp, par, hist>>

\* the lookups of get_obs_uvplane, "dish1_idx = np.where(...)[0][0]" and
\* "dish2_idx = ...", for every baseline pair k
LookupDishes ==
  /\ call.op = "__init__"
  /\ call' = [op |-> "lookup", seed |-> call.seed, raised |-> FALSE,
              ret |-> [k \in DOMAIN self.baseline_lengths |-> DishIdxOfPair(self, k)]]
  /\ UNCHANGED <<self, rng, inp, par, hist>>

NextGeom == Build \/ LookupDishes

SpecGeom == InitGeom /\ [][NextGeom]_vars

(***************************************************************************)
(* C13 (as stated).  Fail-fast configuration: the constructor called with  *)
(* Ndishes <= 0 or with maxfreq <= minfreq ends in a configuration error   *)
(* and yields no instance.                                                 *)
(***************************************************************************)
C13_FailFast ==
  (call.op = "__init__" /\ (self.Ndishes <= 0 \/ self.maxfreq <= self.minfreq)) =>
    call.raised

(***************************************************************************)
(* C15.  Geometry layout: for Ndishes >= 1 and DDish > 0 the first dish is *)
(* at 0 and each consecutive gap is exactly DDish when redundant and one   *)
(* of DDish, 1.25 DDish, 1.5 DDish otherwise, so the layout is strictly    *)
(* increasing; with redundant=True the layout is k*DDish whatever the seed *)
(* and no value is drawn from the generator.                               *)
(***************************************************************************)
C15_Gap(k) == self.dish_locations[k] - self.dish_locations[k - 1]

C15_Layout ==
  (call.op # "new" /\ self.Ndishes >= 1) =>
    /\ DOMAIN self.dish_locations = 0..(self.Ndishes - 1)
    /\ self.dish_locations[0] = 0
    /\ \A k \in 1..(self.Ndishes - 1) :
         /\ C15_Gap(k) > 0
         /\ IF self.redundant
            THEN C15_Gap(k) = LenUnit * self.DDish
            ELSE 4 * C15_Gap(k) \in {4 * LenUnit * self.DDish, 5 * LenUnit * self.DDish,
                                     6 * LenUnit * self.DDish}
    /\ self.redundant =>
         /\ \A k \in 0..(self.Ndishes - 1) :
              self.dish_locations[k] = k * LenUnit * self.DDish
         /\ rng = np_random_seed(call.seed)

\* a layout with the three gaps DDish, 1.25 DDish and 1.5 DDish
C15_Witness ==
  /\ call.op = "__init__" /\ self.Ndishes >= 4 /\ ~self.redundant
  /\ \A g \in {4, 5, 6} :
       \E k \in 1..(self.Ndishes - 1) : 4 * C15_Gap(k) = g * LenUnit * self.DDish

(***************************************************************************)
(* C16.  Baseline pairs and redundancy groups: baseline_lengths has        *)
(* Ndishes*(Ndishes-1)/2 entries, all positive; unique_baseline_lengths is *)
(* strictly ascending; the groups of pairs with the same unique length     *)
(* partition the pairs: every pair is in exactly one group, no group is    *)
(* empty and the sizes add up to the number of pairs.                      *)
(***************************************************************************)
\* redundant_baseline_idxs of the unique baseline j
C16_Group(j) ==
  {k \in DOMAIN self.baseline_lengths :
     self.baseline_lengths[k] = self.unique_baseline_lengths[j]}

C16_Partition ==
  (call.op # "new" /\ self.Ndishes >= 1) =>
    /\ DOMAIN self.baseline_lengths
         = 0..(((self.Ndishes * (self.Ndishes - 1)) \div 2) - 1)
    /\ \A k \in DOMAIN self.baseline_lengths : self.baseline_lengths[k] > 0
    /\ \A j \in DOMAIN self.unique_baseline_lengths :
         /\ j > 0 => self.unique_baseline_lengths[j - 1] < self.unique_baseline_lengths[j]
         /\ C16_Group(j) # {}
    /\ \A k \in DOMAIN self.baseline_lengths :
         Cardinality({j \in DOMAIN self.unique_baseline_lengths : k \in C16_Group(j)}) = 1
    /\ ISum([j \in DOMAIN self.unique_baseline_lengths |-> Cardinality(C16_Group(j))],
            DOMAIN self.unique_baseline_lengths)
         = (self.Ndishes * (self.Ndishes - 1)) \div 2

\* a layout with a group of several pairs and a group of one pair
C16_Witness ==
  /\ call.op = "__init__" /\ self.Ndishes >= 4 /\ ~self.redundant
  /\ \E j \in DOMAIN self.unique_baseline_lengths : Cardinality(C16_Group(j)) >= 2
  /\ \E j \in DOMAIN self.unique_baseline_lengths : Cardinality(C16_Group(j)) = 1

(***************************************************************************)
(* C20.  Dish lookup by position equality: for every layout with           *)
(* DDish > 0 and every baseline pair k, the two dish indices recovered by  *)
(* searching dish_locations for the pair's positions are the indices       *)
(* (a, b), a < b, of the k-th pair in combination order.                   *)
(***************************************************************************)
C20_Lookup ==
  call.op = "lookup" =>
    /\ DOMAIN call.ret = 0..(NPairs(Len0(self.dish_locations)) - 1)
    /\ \A k \in DOMAIN call.ret :
         /\ call.ret[k][1] < call.ret[k][2]
         /\ PairIndex(call.ret[k][1], call.ret[k][2], self.Ndishes) = k
         /\ self.dish_locations[call.ret[k][2]] - self.dish_locations[call.ret[k][1]]
              = self.baseline_lengths[k]

\* the lookups on an irregular layout in which several pairs share a length
C20_Witness ==
  /\ call.op = "lookup" /\ self.Ndishes >= 4 /\ ~self.redundant
  /\ \E k \in 1..(self.Ndishes - 1) : C15_Gap(k) # C15_Gap(1)
  /\ \E j \in DOMAIN self.unique_baseline_lengths : Cardinality(C16_Group(j)) >= 2
  /\ call.ret[Len0(call.ret) - 1] = <<self.Ndishes - 2, self.Ndishes - 1>>

(***************************************************************************)
(* SpecSky: one call of get_point_source_sky on a telescope of             *)
(* Npix = Npix_fft + 1 pixels, with an index list (repetitions and the     *)
(* empty list included) or without one, for every source count and seed.   *)
(***************************************************************************)
MaxListLen == 2

MaxCount == 3

InitSky ==
  /\ \E Npix_fft \in FftSizes, Npad \in {1, 2} :
       Constructed(MaxNfreq, MaxFGDishes, 1, Npix_fft, Npad, TRUE, 0, 0)
  /\ inp = NoInp
  /\ par = NoPar
  /\ hist = NoHist

PointSourceSky ==
  LET
      \* the lists of at most MaxListLen pixel indices within [0, Npix)
      PixelLists(s) == UNION {[1..l -> 0..(s.Npix - 1)] : l \in 0..MaxListLen}
  IN
  /\ call.op = "__init__"
  /\ \E idx \in {<<>>} \cup {<<l>> : l \in PixelLists(self)}, n \in 0..MaxCount,
        seed \in 0..MaxGeomSeed :
       LET c == get_point_source_sky(self, rng, idx, n, seed)
       IN  /\ call' = [op |-> "get_point_source_sky", idx |-> idx, n |-> n,
                       seed |-> seed, ret |-> c.ret]
           /\ rng' = c.rng
  /\ UNCHANGED <<self, inp, par, hist>>

NextSky == PointSourceSky

SpecSky == InitSky /\ [][NextSky]_vars

(***************************************************************************)
(* C17.  Point-source sky: with a list idx of pixel indices within         *)
(* [0, Npix) the image has length Npix, is 1e4 at exactly the listed       *)
(* pixels and 0 elsewhere, for every n and seed; without idx exactly n     *)
(* indices are drawn and every pixel is 0 or 1e4.                          *)
(***************************************************************************)
C17_PointSources ==
  call.op = "get_point_source_sky" =>
    /\ DOMAIN call.ret = 0..(self.Npix - 1)
    /\ IF call.idx # <<>>
       THEN \A k \in 0..(self.Npix - 1) :
              call.ret[k] = IF \E i \in DOMAIN call.idx[1] : call.idx[1][i] = k
                            THEN 10000 ELSE 0
       ELSE /\ \A k \in 0..(self.Npix - 1) : call.ret[k] \in {0, 10000}
            /\ rng = AfterDraws(np_random_seed(call.seed), call.n)
            /\ Cardinality({k \in 0..(self.Npix - 1) : call.ret[k] # 0}) <= call.n

\* a list naming one pixel twice, with a source count that is not its length
C17_Witness ==
  /\ call.op = "get_point_source_sky" /\ call.idx # <<>>
  /\ Len(call.idx[1]) = 2 /\ call.idx[1][1] = call.idx[1][2]
  /\ call.n = MaxCount
  /\ call.ret[call.idx[1][1]] = 10000

\* no list: two draws that fall on two pixels
C17_WitnessDrawn ==
  /\ call.op = "get_point_source_sky" /\ call.idx = <<>> /\ call.n = 2
  /\ Cardinality({k \in 0..(self.Npix - 1) : call.ret[k] # 0}) = 2

(***************************************************************************)
(* SpecShared: get_uniform_sky(high, seed=a) and get_errors(error_sigma,   *)
(* correlated, seed=b) run by two threads on one instance.  Each call is   *)
(* two steps on the shared generator, np.random.seed and the draw; the     *)
(* scheduler may switch threads between them.  par.pc counts the steps     *)
(* each thread has taken, par.out holds the outputs, par.order the thread  *)
(* of every step taken so far (1 the sky, 2 the errors).                   *)
(***************************************************************************)
MaxTaskSeed == 3

\* mutant of np_random_uniform: one value of the generator is skipped
np_random_uniform_skip(r, high, n) ==
  [k \in 0..(n - 1) |-> UniformOf(Draws(RngNext(r), n)[k + 1], high)]

\* np.random.uniform(0, high, n) drawn from the generator in state r
np_random_uniform(r, high, n) ==
  [k \in 0..(n - 1) |-> UniformOf(Draws(r, n)[k + 1], high)]

InitShared ==
  /\ \E Ndishes \in 1..MaxDishes, Npix_fft \in FftSizes :
       Constructed(MaxNfreq, Ndishes, 1, Npix_fft, 1, TRUE, 0, 0)
  /\ \E a \in 0..MaxTaskSeed, b \in 0..MaxTaskSeed, high \in 1..MaxSources,
        correlated \in BOOLEAN :
       inp = [a |-> a, b |-> b, high |-> high, error_sigma |-> MaxSigma,
              correlated |-> correlated]
  /\ par = [pc |-> <<0, 0>>, out |-> <<<<>>, <<>>>>, order |-> <<>>]
  /\ hist = NoHist

\* thread t takes its next step: the generator becomes r, its output out
Step(t, r, out) ==
  /\ rng' = r
  /\ par' = [pc |-> [par.pc EXCEPT ![t] = @ + 1],
             out |-> [par.out EXCEPT ![t] = out],
             order |-> Append(par.order, t)]
  /\ UNCHANGED <<self, inp, call, hist>>

\* get_uniform_sky: np.random.seed(seed)
SkySeed == par.pc[1] = 0 /\ Step(1, np_random_seed(inp.a), <<>>)

\* get_uniform_sky: return np.random.uniform(0, high, self.Npix)
SkyDraw ==
  /\ par.pc[1] = 1
  /\ Step(1, AfterDraws(rng, self.Npix), np_random_uniform(rng, inp.high, self.Npix))

\* get_errors: np.random.seed(seed)
ErrSeed == par.pc[2] = 0 /\ Step(2, np_random_seed(inp.b), <<>>)

\* get_errors: the covariance, then the draw of the per-dish errors
ErrDraw ==
  /\ par.pc[2] = 1
  /\ Step(2, AfterDraws(rng, self.Ndishes),
          IF inp.correlated
          THEN np_random_multivariate_normal(rng, CovOf(self, inp.error_sigma,
                                                        LenUnit * self.DDish))
          ELSE np_random_normal(rng, inp.error_sigma, self.Ndishes))

NextShared == SkySeed \/ SkyDraw \/ ErrSeed \/ ErrDraw

SpecShared == InitShared /\ [][NextShared]_vars

(***************************************************************************)
(* C18.  Unsafe concurrent generators: when the two calls run one after    *)
(* the other with no interleaving, each output equals the output of the    *)
(* call run alone; some interleaving of their reseed and draw steps is     *)
(* reachable in which an output differs from the run-alone output          *)
(* (C18_Witness).                                                          *)
(***************************************************************************)
\* the outputs of the two calls run alone
C18_Alone ==
  <<get_uniform_sky(self, rng, inp.high, inp.a).ret,
    get_errors(self, inp.error_sigma, inp.correlated, inp.b).errors>>

\* thread t took its two steps with no step of the other thread in between
C18_Unbroken(t) ==
  \E i \in 1..(Len(par.order) - 1) : par.order[i] = t /\ par.order[i + 1] = t

C18_Sequential ==
  \A t \in {1, 2} :
    (par.pc[t] = 2 /\ C18_Unbroken(t)) => par.out[t] = C18_Alone[t]

\* both calls finished, their steps interleaved, and an output that is not
\* the run-alone output
C18_Witness ==
  /\ par.pc = <<2, 2>> /\ inp.a # inp.b
  /\ ~C18_Unbroken(1)
  /\ \E t \in {1, 2} : par.out[t] # C18_Alone[t]

\* both calls finished one after the other
C18_WitnessSequential ==
  /\ par.pc = <<2, 2>> /\ inp.a # inp.b
  /\ par.order = <<2, 2, 1, 1>>
  /\ par.out = C18_Alone

(***************************************************************************)
(* SpecPB: filter_FG_per_baseline on the regular instances with up to      *)
(* MaxFGDishes unique baselines, called any number of times on the         *)
(* caller's uv-plane.                                                      *)
(***************************************************************************)
InitPB ==
  /\ \E Ndishes \in 1..(MaxFGDishes + 1), Nfreq \in 1..MaxNfreq, fg \in 0..MaxFG :
       Constructed(Nfreq, Ndishes, 1, 2, 2, TRUE, 0, fg)
  /\ \E uvplane \in UvPlanes(self), scale \in Scales :
       inp = [uvplane |-> uvplane, scale |-> scale]
  /\ par = NoPar
  /\ hist = NoHist

NextPB == FilterFGPerBaseline

SpecPB == InitPB /\ [][NextPB]_vars

(***************************************************************************)
(* C19.  Per-baseline block extraction: for each unique baseline i of Nb   *)
(* the sub-matrix decomposed by filter_FG_per_baseline is the Nfreq x      *)
(* Nfreq matrix of the entries of the global filtering matrix at rows and  *)
(* columns f*Nb + i, in ascending frequency order, and filtering with      *)
(* basis i changes only column i of the uv-plane: column i of the result   *)
(* is column i of the argument filtered with basis i.                      *)
(***************************************************************************)
\* the entries of the global matrix at the positions f*Nb + i
C19_Block(i) ==
  LET matrix == get_FG_filtering_matrix_inverse(self)
  IN  [f \in 0..(self.Nfreq - 1) |-> [g \in 0..(self.Nfreq - 1) |->
         matrix[f * NbOf(self) + i][g * NbOf(self) + i]]]

C19_BlockExtraction ==
  call.op = "filter_FG_per_baseline" =>
    /\ Len0(self.sing_eva[1]) = NbOf(self)
    /\ \A i \in 0..(NbOf(self) - 1) :
         /\ self.sing_eva[1][i] = decompose_filtering(C19_Block(i))
         /\ Len0(self.sing_eva[1][i].eva) = self.Nfreq
         /\ ~call.raised =>
              Column(call.ret, i)
                = FilterLoop(0, Column(call.uvplane, i), 0, self.sing_eva[1][i],
                             call.scale).out

\* two unique baselines with different blocks, both columns changed
C19_Witness ==
  /\ call.op = "filter_FG_per_baseline" /\ ~call.raised
  /\ NbOf(self) >= 2 /\ self.Nfreq >= 2
  /\ self.sing_eva[1][0] # self.sing_eva[1][1]
  /\ \A i \in 0..1 : Column(call.ret, i) # Column(call.uvplane, i)

(***************************************************************************)
(* get_obs_rmap.  The inner call is written with positional arguments,     *)
(*   self.get_obs_uvplane(uvplane, time_error_sigma, correlated, seed,     *)
(*                        filter_FG)                                       *)
(* against the parameters (uvplane, error_sigma, correlated, time_error,   *)
(* seed, filter_FG) of get_obs_uvplane: the fourth value lands on          *)
(* time_error, the fifth on seed, and filter_FG keeps its default True.    *)
(***************************************************************************)
\* np.zeros(self.Nfft//2+1, np.complex)
empty_uv(s) == [k \in 0..(s.Nfft \div 2) |-> CZero]

\* what the parameters of get_obs_uvplane are bound to by the call of line 342:
\* "if time_error" tests the truth value of seed, np.random.seed(filter_FG)
\* seeds with 1 for True and 0 for False
InnerArgs(time_error_sigma, correlated, seed, filter) ==
  [error_sigma |-> time_error_sigma, correlated |-> correlated,
   time_error |-> seed # 0, seed |-> IF filter THEN 1 ELSE 0, filter |-> TRUE]

\* indices = (self.DoL2ndx(self.DoL)+0.5).astype(int)
RmapIndices(s) ==
  [i \in 0..(s.Nfreq - 1) |-> [ii \in 0..(NbOf(s) - 1) |->
     (2 * DoL2ndx(s, s.DoL[i][ii]) + DoLDen) \div (2 * DoLDen)]]

\* process_freq(i, f) of get_obs_rmap on the array uvplane_obs: the samples
\* in range are stored, a later one overwriting an earlier one; the stored
\* samples are whole complex numbers where the denominators are 1
RmapRow(s, indices, uvplane_obs, i) ==
  LET last(k) == CHOOSE ii \in DOMAIN indices[i] :
                   /\ indices[i][ii] = k
                   /\ \A jj \in DOMAIN indices[i] : indices[i][jj] = k => jj <= ii
      uvi == [k \in DOMAIN empty_uv(s) |->
                IF \E ii \in DOMAIN indices[i] : indices[i][ii] = k
                THEN <<uvplane_obs[i][last(k)][1] \div uvplane_obs[i][last(k)][3],
                       uvplane_obs[i][last(k)][2] \div uvplane_obs[i][last(k)][3]>>
                ELSE CZero]
  IN  uv2image(s, uvi)

\* the part of get_obs_rmap after the inner call with arguments a and
\* outcome o.  With a.filter the value uvplane_obs is a tuple of three
\* arrays, and uvplane_obs[i,ii] raises TypeError as soon as an index is in
\* range; rows without an index in range are uv2image(empty_uv()).
RmapRows(s, a, o) ==
  LET indices == RmapIndices(s)
      stores  == \E i \in 0..(s.Nfreq - 1), ii \in 0..(NbOf(s) - 1) :
                   indices[i][ii] < Len0(empty_uv(s))
  IN  IF o.raised \/ (a.filter /\ stores)
      THEN [self |-> o.self, rng |-> o.rng, raised |-> TRUE, ret |-> <<>>, inner |-> a]
      ELSE [self |-> o.self, rng |-> o.rng, raised |-> FALSE,
            ret |-> [i \in 0..(s.Nfreq - 1) |->
                       IF a.filter THEN uv2image(s, empty_uv(s))
                       ELSE RmapRow(s, indices, o.ret, i)],
            inner |-> a]

\* the inner call of line 342 with the bound arguments a
RmapInner(s, r, uvplane, a) ==
  RmapRows(s, a, get_obs_uvplane(s, r, uvplane, a.error_sigma, a.correlated,
                                 a.time_error, a.seed, a.filter))

get_obs_rmap(s, r, uvplane, time_error_sigma, correlated, seed, filter) ==
  RmapInner(s, r, uvplane, InnerArgs(time_error_sigma, correlated, seed, filter))

(***************************************************************************)
(* SpecRmap: one call of get_obs_rmap on a new regular instance of up to   *)
(* MaxFGDishes dishes, with dish spacings that put the uv indices inside   *)
(* and outside the uv array, for every time_error_sigma, correlated, seed  *)
(* and filter_FG.                                                          *)
(***************************************************************************)
InitRmap ==
  /\ \E Ndishes \in 1..MaxFGDishes, DDish \in 1..(MaxDDish + 1), fg \in 0..MaxFG :
       Constructed(MaxNfreq, Ndishes, DDish, 2, 1, TRUE, 0, fg)
  /\ \E uvplane \in UvPlanes(self), time_error_sigma \in 0..MaxSigma :
       inp = [uvplane |-> uvplane, time_error_sigma |-> time_error_sigma]
  /\ par = NoPar
  /\ hist = NoHist

GetObsRmap ==
  /\ call.op = "__init__"
  /\ \E correlated \in BOOLEAN, seed \in Seeds, filter \in BOOLEAN :
       LET c == get_obs_rmap(self, rng, inp.uvplane, inp.time_error_sigma,
                             correlated, seed, filter)
       IN  /\ call' = [op |-> "get_obs_rmap", uvplane |-> inp.uvplane,
                       time_error_sigma |-> inp.time_error_sigma,
                       correlated |-> correlated, seed |-> seed,
                       filter |-> filter, inner |-> c.inner,
                       raised |-> c.raised, ret |-> c.ret]
           /\ self' = c.self
           /\ rng' = c.rng
  /\ UNCHANGED <<inp, par, hist>>

NextRmap == GetObsRmap

SpecRmap == InitRmap /\ [][NextRmap]_vars

(***************************************************************************)
(* C21.  get_obs_rmap argument forwarding and result: the inner            *)
(* get_obs_uvplane call receives time_error_sigma as error_sigma,          *)
(* correlated as correlated, seed as seed and filter_FG as filter_FG,      *)
(* applying a timing error; and the call completes, returning one real     *)
(* image row per frequency, for filter_FG true and false and for           *)
(* time_error_sigma = 0.                                                   *)
(***************************************************************************)
C21_Forwarding ==
  call.op = "get_obs_rmap" =>
    /\ call.inner = [error_sigma |-> call.time_error_sigma,
                     correlated |-> call.correlated, time_error |-> TRUE,
                     seed |-> call.seed, filter |-> call.filter]
    /\ ~call.raised
    /\ DOMAIN call.ret = 0..(self.Nfreq - 1)
    /\ \A i \in DOMAIN call.ret : DOMAIN call.ret[i] = 0..(self.Npix - 1)

\* what the code does: seed decides the kind of error, filter_FG the seed,
\* the filters always run, and the call completes only when the filters do
\* and no uv index is in range, with rows that are all zero
C21_AsCoded ==
  call.op = "get_obs_rmap" =>
    /\ call.inner.error_sigma = call.time_error_sigma
    /\ call.inner.correlated = call.correlated
    /\ call.inner.time_error = (call.seed # 0)
    /\ call.inner.seed = (IF call.filter THEN 1 ELSE 0)
    /\ call.inner.filter
    /\ ~call.raised =>
         /\ NbOf(self) >= 1
         /\ \A i \in 0..(self.Nfreq - 1), ii \in 0..(NbOf(self) - 1) :
              RmapIndices(self)[i][ii] > self.Nfft \div 2
         /\ call.ret = [i \in 0..(self.Nfreq - 1) |-> [k \in 0..(self.Npix - 1) |-> 0]]

\* a call with filter_FG=False and an index in range, which raises
C21_WitnessRaised ==
  /\ call.op = "get_obs_rmap" /\ ~call.filter /\ call.seed = 0
  /\ call.time_error_sigma > 0 /\ NbOf(self) >= 1 /\ call.raised

\* a call that completes
C21_WitnessCompleted ==
  /\ call.op = "get_obs_rmap" /\ ~call.raised /\ call.time_error_sigma > 0

====
